---- MODULE Spec2Model ----
(***************************************************************************)
(* StockApp: the technical-indicator / trigger-detection engine, the alarm *)
(* catalogue builder (UpdateSingleStockIndicators) and the composite       *)
(* same-day matcher (CheckUserAlerts).                                     *)
(*                                                                         *)
(* Conventions of the model                                                *)
(*  - A price series is a TLA+ sequence of records [date, close]; every    *)
(*    operator keeps the source's 0-based indices (PriceAt(prices, i) is   *)
(*    prices[i] of the JavaScript).                                        *)
(*  - Closes are positive integers; every quotient the code forms          *)
(*    (sum / period, fluctuation / 100, avgGain / avgLoss ...) is kept as  *)
(*    an exact rational [n, d], so thresholds are compared exactly.        *)
(*    IEEE rounding of the doubles is not modelled.                        *)
(*  - A JavaScript Date is [time |-> h], h = hours since the epoch (UTC);  *)
(*    null is NULL; an ISO string is [iso |-> <<utcDay, utcHour>>]; a      *)
(*    "YYYY-MM-DD" string is [ymd |-> day].                                *)
(*  - The parameter grids keep the source's shape with smaller periods     *)
(*    (see the bounds below), so that windows fit in series TLC can        *)
(*    enumerate.                                                           *)
(***************************************************************************)
EXTENDS Integers, Sequences, FiniteSets, TLC

VARIABLES
    prices,     \* the price series handed to the function under test
    alarmList,  \* the alarm catalogue: the one handed to the matcher, or the
                \* one the previous run of the builder left behind
    blob,       \* the lines of the symbol's CSV file
    watchlist,  \* the symbols of the watchlist container
    batch,      \* the locals of a batch run over the watchlist
    stockDB,    \* the documents of the watchlist container, by symbol
    userDB,     \* the user's document of the userInfo container
    semaphore,  \* the permits left in the semaphore of a concurrent batch
    tasks,      \* the locals of the tasks / invocations that run concurrently
    pc,         \* "idle" before the call, "done" after it
    call,       \* the call that was made: [op |-> ..., arguments]
    ret         \* what the call returned

vars == <<prices, alarmList, blob, watchlist, batch, stockDB, userDB, semaphore,
          tasks, pc, call, ret>>

----------------------------------------------------------------------------
(* Bounds of the model *)

\* longest price series enumerated
MaxLen == 5

\* trading days per week; the source has weeks * 5 (nWeekLow.js:21), the
\* model shortens the week so that a whole window fits in MaxLen points
DaysPerWeek == 1

\* the closes a point can take: steps of 1 %, 2 % and 10 % from 100
Closes == {100, 101, 102, 110}

\* the date of the first point of an enumerated series, in days
FirstDay == 10

----------------------------------------------------------------------------
(* Values *)

NULL == [null |-> TRUE]

\* a Date object holding the instant h (hours since the epoch, UTC)
DateOf(h) == [time |-> h]

\* the Date of local midnight of calendar day `day` on a host whose clock is
\* `tz` hours ahead of UTC: new Date(year, month, day)
LocalMidnight(day, tz) == DateOf(day * 24 - tz)

PriceAt(prices_, i) == prices_[i + 1]

\* Array.prototype.slice(from, to) for 0 <= from <= to
slice(arr, from, to) ==
    SubSeq(arr, from + 1, IF to > Len(arr) THEN Len(arr) ELSE to)

RECURSIVE GCD(_, _)
GCD(a, b) == IF b = 0 THEN a ELSE GCD(b, a % b)

Abs(x) == IF x < 0 THEN -x ELSE x

\* the rational n / d in lowest terms with a positive denominator (d # 0)
Rat(n, d) ==
    LET g == GCD(Abs(n), Abs(d))
        s == IF d < 0 THEN -1 ELSE 1
    IN  [n |-> (s * n) \div g, d |-> (s * d) \div g]

RatInt(k) == [n |-> k, d |-> 1]
RatAdd(a, b) == Rat(a.n * b.d + b.n * a.d, a.d * b.d)
RatSub(a, b) == Rat(a.n * b.d - b.n * a.d, a.d * b.d)
RatMul(a, b) == Rat(a.n * b.n, a.d * b.d)
RatDiv(a, b) == Rat(a.n * b.d, a.d * b.n)
RatLE(a, b) == a.n * b.d <= b.n * a.d
RatLT(a, b) == a.n * b.d < b.n * a.d

\* Math.min(...xs) / Math.max(...xs) of a non-empty sequence of integers
MathMin(xs) == CHOOSE m \in {xs[k] : k \in DOMAIN xs} :
                   \A k \in DOMAIN xs : m <= xs[k]
MathMax(xs) == CHOOSE m \in {xs[k] : k \in DOMAIN xs} :
                   \A k \in DOMAIN xs : m >= xs[k]

MapClose(window) == [k \in DOMAIN window |-> window[k].close]

----------------------------------------------------------------------------
(* N-week low detector: shared/indicators/nWeekLow.js *)

\* the mutant: the window is anchored to the end of the series
checkNWeekLowTrigger_anchored(prices_, currentIndex, weeks, fluctuation) ==
    LET days == weeks * DaysPerWeek
        startIdx == currentIndex - days
    IN  IF startIdx < 0 \/ currentIndex >= Len(prices_)
        THEN [isTriggered |-> FALSE, threshold |-> NULL, windowLow |-> NULL,
              windowHigh |-> NULL, insufficient |-> TRUE]
        ELSE LET window == slice(prices_, Len(prices_) - 1 - days, Len(prices_))
                 windowLow == MathMin(MapClose(window))
                 windowHigh == MathMax(MapClose(window))
                 range == windowHigh - windowLow
                 threshold == RatAdd(RatInt(windowLow),
                                  RatMul(RatInt(range), Rat(fluctuation, 100)))
                 currentClose == PriceAt(prices_, currentIndex).close
             IN  [isTriggered |-> RatLE(RatInt(currentClose), threshold),
                  threshold |-> threshold, windowLow |-> windowLow,
                  windowHigh |-> windowHigh, insufficient |-> FALSE]

checkNWeekLowTrigger(prices_, currentIndex, weeks, fluctuation) ==
    LET days == weeks * DaysPerWeek
        startIdx == currentIndex - days
        insufficientResult ==
            [isTriggered |-> FALSE, threshold |-> NULL, windowLow |-> NULL,
             windowHigh |-> NULL, insufficient |-> TRUE]
    IN  IF startIdx < 0 \/ currentIndex >= Len(prices_)
        THEN insufficientResult
        ELSE LET window == slice(prices_, startIdx, currentIndex + 1)
             IN  IF Len(window) < days + 1
                 THEN insufficientResult
                 ELSE LET windowLow == MathMin(MapClose(window))
                          windowHigh == MathMax(MapClose(window))
                          range == windowHigh - windowLow
                          threshold ==
                              RatAdd(RatInt(windowLow),
                                  RatMul(RatInt(range), Rat(fluctuation, 100)))
                          currentClose == PriceAt(prices_, currentIndex).close
                      IN  [isTriggered |-> RatLE(RatInt(currentClose), threshold),
                           threshold |-> threshold, windowLow |-> windowLow,
                           windowHigh |-> windowHigh, insufficient |-> FALSE]

\* the loop of findMostRecentTriggerDate: for (i = ...; i >= days; i--)
RECURSIVE scanNWeekLow(_, _, _, _)
scanNWeekLow(prices_, i, weeks, fluctuation) ==
    IF i < weeks * DaysPerWeek
    THEN NULL
    ELSE IF checkNWeekLowTrigger(prices_, i, weeks, fluctuation).isTriggered
         THEN PriceAt(prices_, i).date
         ELSE scanNWeekLow(prices_, i - 1, weeks, fluctuation)

\* the mutant: the scan runs forward and returns the oldest trigger
RECURSIVE scanNWeekLowForward(_, _, _, _)
scanNWeekLowForward(prices_, i, weeks, fluctuation) ==
    IF i > Len(prices_) - 1
    THEN NULL
    ELSE IF checkNWeekLowTrigger(prices_, i, weeks, fluctuation).isTriggered
         THEN PriceAt(prices_, i).date
         ELSE scanNWeekLowForward(prices_, i + 1, weeks, fluctuation)

findMostRecentTriggerDate_oldest(prices_, weeks, fluctuation) ==
    scanNWeekLowForward(prices_, weeks * DaysPerWeek, weeks, fluctuation)

\* a variant: the last index alone is looked at
findMostRecentTriggerDate_lastIndexOnly(prices_, weeks, fluctuation) ==
    IF Len(prices_) - 1 >= weeks * DaysPerWeek
       /\ checkNWeekLowTrigger(prices_, Len(prices_) - 1, weeks,
                               fluctuation).isTriggered
    THEN PriceAt(prices_, Len(prices_) - 1).date
    ELSE NULL

\* a variant: the scan stops above index days (i > days for i >= days)
findMostRecentTriggerDate_aboveDays(prices_, weeks, fluctuation) ==
    LET d == scanNWeekLow(prices_, Len(prices_) - 1, weeks, fluctuation)
    IN  IF /\ Len(prices_) > weeks * DaysPerWeek
           /\ d = PriceAt(prices_, weeks * DaysPerWeek).date
        THEN NULL
        ELSE d

findMostRecentTriggerDate(prices_, weeks, fluctuation) ==
    scanNWeekLow(prices_, Len(prices_) - 1, weeks, fluctuation)

----------------------------------------------------------------------------
(* N-week high detector: shared/indicators/nWeekHigh.js *)

\* a variant: with too little history the window is cut at the start of the
\* series and the condition is evaluated on what is there
checkNWeekHighTrigger_partialWindow(prices_, currentIndex, weeks, fluctuation) ==
    LET days == weeks * DaysPerWeek
        startIdx == IF currentIndex - days < 0 THEN 0 ELSE currentIndex - days
    IN  IF currentIndex >= Len(prices_)
        THEN [isTriggered |-> FALSE, threshold |-> NULL, windowLow |-> NULL,
              windowHigh |-> NULL, insufficient |-> TRUE]
        ELSE LET window == slice(prices_, startIdx, currentIndex + 1)
                 windowLow == MathMin(MapClose(window))
                 windowHigh == MathMax(MapClose(window))
                 range == windowHigh - windowLow
                 threshold ==
                     RatSub(RatInt(windowHigh),
                         RatMul(RatInt(range), Rat(fluctuation, 100)))
                 currentClose == PriceAt(prices_, currentIndex).close
             IN  [isTriggered |-> RatLE(threshold, RatInt(currentClose)),
                  threshold |-> threshold, windowLow |-> windowLow,
                  windowHigh |-> windowHigh,
                  insufficient |-> Len(window) < days + 1]

\* a variant: the close must be strictly above the threshold
checkNWeekHighTrigger_strict(prices_, currentIndex, weeks, fluctuation) ==
    LET days == weeks * DaysPerWeek
        startIdx == currentIndex - days
    IN  IF startIdx < 0 \/ currentIndex >= Len(prices_)
        THEN [isTriggered |-> FALSE, threshold |-> NULL, windowLow |-> NULL,
              windowHigh |-> NULL, insufficient |-> TRUE]
        ELSE LET window == slice(prices_, startIdx, currentIndex + 1)
                 windowLow == MathMin(MapClose(window))
                 windowHigh == MathMax(MapClose(window))
                 range == windowHigh - windowLow
                 threshold ==
                     RatSub(RatInt(windowHigh),
                         RatMul(RatInt(range), Rat(fluctuation, 100)))
                 currentClose == PriceAt(prices_, currentIndex).close
             IN  [isTriggered |-> RatLT(threshold, RatInt(currentClose)),
                  threshold |-> threshold, windowLow |-> windowLow,
                  windowHigh |-> windowHigh, insufficient |-> FALSE]

checkNWeekHighTrigger(prices_, currentIndex, weeks, fluctuation) ==
    LET days == weeks * DaysPerWeek
        startIdx == currentIndex - days
        insufficientResult ==
            [isTriggered |-> FALSE, threshold |-> NULL, windowLow |-> NULL,
             windowHigh |-> NULL, insufficient |-> TRUE]
    IN  IF startIdx < 0 \/ currentIndex >= Len(prices_)
        THEN insufficientResult
        ELSE LET window == slice(prices_, startIdx, currentIndex + 1)
             IN  IF Len(window) < days + 1
                 THEN insufficientResult
                 ELSE LET windowLow == MathMin(MapClose(window))
                          windowHigh == MathMax(MapClose(window))
                          range == windowHigh - windowLow
                          threshold ==
                              RatSub(RatInt(windowHigh),
                                  RatMul(RatInt(range), Rat(fluctuation, 100)))
                          currentClose == PriceAt(prices_, currentIndex).close
                      IN  [isTriggered |-> RatLE(threshold, RatInt(currentClose)),
                           threshold |-> threshold, windowLow |-> windowLow,
                           windowHigh |-> windowHigh, insufficient |-> FALSE]

RECURSIVE scanNWeekHigh(_, _, _, _)
scanNWeekHigh(prices_, i, weeks, fluctuation) ==
    IF i < weeks * DaysPerWeek
    THEN NULL
    ELSE IF checkNWeekHighTrigger(prices_, i, weeks, fluctuation).isTriggered
         THEN PriceAt(prices_, i).date
         ELSE scanNWeekHigh(prices_, i - 1, weeks, fluctuation)

\* nWeekHigh.js has its own findMostRecentTriggerDate
findMostRecentTriggerDateHigh(prices_, weeks, fluctuation) ==
    scanNWeekHigh(prices_, Len(prices_) - 1, weeks, fluctuation)

----------------------------------------------------------------------------
(* Moving averages: shared/indicators/movingAverage.js *)

RECURSIVE SumClose(_)
SumClose(window) ==
    IF window = <<>> THEN 0 ELSE Head(window).close + SumClose(Tail(window))

\* the simple moving average of the `period` closes ending at currentIndex
calculateMA(prices_, currentIndex, period) ==
    IF currentIndex < period - 1
    THEN NULL
    ELSE LET startIdx == currentIndex - period + 1
             window == slice(prices_, startIdx, currentIndex + 1)
         IN  Rat(SumClose(window), period)

NoCross(shortMA, longMA, prevShortMA, prevLongMA) ==
    [crossed |-> FALSE, direction |-> "null", shortMA |-> shortMA,
     longMA |-> longMA, prevShortMA |-> prevShortMA, prevLongMA |-> prevLongMA]

\* the mutant: the averages must be strictly apart on the day before
checkMACrossMA_strictBefore(prices_, currentIndex, shortPeriod, longPeriod) ==
    IF currentIndex < longPeriod \/ currentIndex < 1
    THEN NoCross(NULL, NULL, NULL, NULL)
    ELSE LET shortMA == calculateMA(prices_, currentIndex, shortPeriod)
             longMA == calculateMA(prices_, currentIndex, longPeriod)
             prevShortMA == calculateMA(prices_, currentIndex - 1, shortPeriod)
             prevLongMA == calculateMA(prices_, currentIndex - 1, longPeriod)
             goldenCross == RatLT(prevShortMA, prevLongMA) /\ RatLT(longMA, shortMA)
             deathCross == RatLT(prevLongMA, prevShortMA) /\ RatLT(shortMA, longMA)
         IN  [crossed |-> goldenCross \/ deathCross,
              direction |-> IF goldenCross THEN "golden"
                            ELSE IF deathCross THEN "death" ELSE "null",
              shortMA |-> shortMA, longMA |-> longMA,
              prevShortMA |-> prevShortMA, prevLongMA |-> prevLongMA]

checkMACrossMA(prices_, currentIndex, shortPeriod, longPeriod) ==
    IF currentIndex < longPeriod \/ currentIndex < 1
    THEN NoCross(NULL, NULL, NULL, NULL)
    ELSE LET shortMA == calculateMA(prices_, currentIndex, shortPeriod)
             longMA == calculateMA(prices_, currentIndex, longPeriod)
             prevShortMA == calculateMA(prices_, currentIndex - 1, shortPeriod)
             prevLongMA == calculateMA(prices_, currentIndex - 1, longPeriod)
         IN  IF shortMA = NULL \/ longMA = NULL
                  \/ prevShortMA = NULL \/ prevLongMA = NULL
             THEN NoCross(shortMA, longMA, prevShortMA, prevLongMA)
             ELSE LET goldenCross ==
                          RatLE(prevShortMA, prevLongMA) /\ RatLT(longMA, shortMA)
                      deathCross ==
                          RatLE(prevLongMA, prevShortMA) /\ RatLT(shortMA, longMA)
                  IN  [crossed |-> goldenCross \/ deathCross,
                       direction |-> IF goldenCross THEN "golden"
                                     ELSE IF deathCross THEN "death" ELSE "null",
                       shortMA |-> shortMA, longMA |-> longMA,
                       prevShortMA |-> prevShortMA, prevLongMA |-> prevLongMA]

RECURSIVE scanMACrossMA(_, _, _, _, _)
scanMACrossMA(prices_, i, shortPeriod, longPeriod, direction) ==
    IF i < longPeriod
    THEN NULL
    ELSE LET result == checkMACrossMA(prices_, i, shortPeriod, longPeriod)
         IN  IF result.crossed
                  /\ (direction = "both" \/ result.direction = direction)
             THEN PriceAt(prices_, i).date
             ELSE scanMACrossMA(prices_, i - 1, shortPeriod, longPeriod, direction)

findMostRecentMACrossMA(prices_, shortPeriod, longPeriod, direction) ==
    scanMACrossMA(prices_, Len(prices_) - 1, shortPeriod, longPeriod, direction)

RECURSIVE scanMAPosition(_, _, _, _, _)
scanMAPosition(prices_, i, ma1Period, ma2Period, direction) ==
    LET maxPeriod == IF ma1Period > ma2Period THEN ma1Period ELSE ma2Period
    IN  IF i < maxPeriod - 1
        THEN NULL
        ELSE LET ma1 == calculateMA(prices_, i, ma1Period)
                 ma2 == calculateMA(prices_, i, ma2Period)
             IN  IF ma1 = NULL \/ ma2 = NULL
                 THEN scanMAPosition(prices_, i - 1, ma1Period, ma2Period, direction)
                 ELSE IF direction = "above" /\ RatLT(ma2, ma1)
                      THEN PriceAt(prices_, i).date
                 ELSE IF direction = "below" /\ RatLT(ma1, ma2)
                      THEN PriceAt(prices_, i).date
                 ELSE scanMAPosition(prices_, i - 1, ma1Period, ma2Period, direction)

\* a variant: the scan starts one index before the last point
findMostRecentMAPosition_beforeLast(prices_, ma1Period, ma2Period, direction) ==
    scanMAPosition(prices_, Len(prices_) - 2, ma1Period, ma2Period, direction)

findMostRecentMAPosition(prices_, ma1Period, ma2Period, direction) ==
    scanMAPosition(prices_, Len(prices_) - 1, ma1Period, ma2Period, direction)

----------------------------------------------------------------------------
(* Daily change: shared/indicators/dailyChange.js *)

\* ((currentClose - previousClose) / previousClose) * 100
\* a variant: the change is taken relative to the current close
dailyChangePercent_ofCurrent(prices_, currentIndex) ==
    LET previousClose == PriceAt(prices_, currentIndex - 1).close
        currentClose == PriceAt(prices_, currentIndex).close
    IN  RatMul(RatDiv(RatInt(currentClose - previousClose), RatInt(currentClose)),
               RatInt(100))

\* ((currentClose - previousClose) / previousClose) * 100
dailyChangePercent(prices_, currentIndex) ==
    LET previousClose == PriceAt(prices_, currentIndex - 1).close
        currentClose == PriceAt(prices_, currentIndex).close
    IN  RatMul(RatDiv(RatInt(currentClose - previousClose), RatInt(previousClose)),
               RatInt(100))

checkDailyLossTrigger(prices_, currentIndex, thresholdPercent) ==
    IF currentIndex < 1 \/ currentIndex >= Len(prices_)
    THEN [isTriggered |-> FALSE, dailyChangePercent |-> NULL]
    ELSE LET pct == dailyChangePercent(prices_, currentIndex)
         IN  [isTriggered |-> RatLE(pct, RatInt(-thresholdPercent)),
              dailyChangePercent |-> pct]

checkDailyGainTrigger(prices_, currentIndex, thresholdPercent) ==
    IF currentIndex < 1 \/ currentIndex >= Len(prices_)
    THEN [isTriggered |-> FALSE, dailyChangePercent |-> NULL]
    ELSE LET pct == dailyChangePercent(prices_, currentIndex)
         IN  [isTriggered |-> RatLE(RatInt(thresholdPercent), pct),
              dailyChangePercent |-> pct]

RECURSIVE scanDailyLoss(_, _, _)
scanDailyLoss(prices_, i, thresholdPercent) ==
    IF i < 1 THEN NULL
    ELSE IF checkDailyLossTrigger(prices_, i, thresholdPercent).isTriggered
         THEN PriceAt(prices_, i).date
         ELSE scanDailyLoss(prices_, i - 1, thresholdPercent)

findMostRecentDailyLossTriggerDate(prices_, thresholdPercent) ==
    scanDailyLoss(prices_, Len(prices_) - 1, thresholdPercent)

RECURSIVE scanDailyGain(_, _, _)
scanDailyGain(prices_, i, thresholdPercent) ==
    IF i < 1 THEN NULL
    ELSE IF checkDailyGainTrigger(prices_, i, thresholdPercent).isTriggered
         THEN PriceAt(prices_, i).date
         ELSE scanDailyGain(prices_, i - 1, thresholdPercent)

findMostRecentDailyGainTriggerDate(prices_, thresholdPercent) ==
    scanDailyGain(prices_, Len(prices_) - 1, thresholdPercent)

----------------------------------------------------------------------------
(* RSI: shared/indicators/rsi.js *)

\* the period the catalogue builder passes; the source passes 14, the model
\* a period short enough for the smoothing to run inside MaxLen points
RSIPeriod == 2

RSIAt(rsiValues, i) == rsiValues[i + 1]

\* 100 when avgLoss is 0, else 100 - 100 / (1 + avgGain / avgLoss)
rsiFromAverages(avgGain, avgLoss) ==
    IF avgLoss.n = 0
    THEN RatInt(100)
    ELSE LET rs == RatDiv(avgGain, avgLoss)
         IN  RatSub(RatInt(100), RatDiv(RatInt(100), RatAdd(RatInt(1), rs)))

\* the seeding loop, for (i = 1; i <= period; i++): [gains, losses]
RECURSIVE seedGainsLosses(_, _, _)
seedGainsLosses(prices_, i, period) ==
    IF i > period
    THEN [gains |-> 0, losses |-> 0]
    ELSE LET change == PriceAt(prices_, i).close - PriceAt(prices_, i - 1).close
             rest == seedGainsLosses(prices_, i + 1, period)
         IN  IF change > 0
             THEN [gains |-> rest.gains + change, losses |-> rest.losses]
             ELSE [gains |-> rest.gains, losses |-> rest.losses + Abs(change)]

\* the mutant: the previous average loses its weight of period - 1
wilderSmooth_unweighted(avg, current, period) ==
    RatDiv(RatAdd(avg, RatInt(current)), RatInt(period))

\* avg = ((avg * (period - 1)) + current) / period
wilderSmooth(avg, current, period) ==
    RatDiv(RatAdd(RatMul(avg, RatInt(period - 1)), RatInt(current)), RatInt(period))

\* the smoothing loop, for (i = period + 1; i < prices.length; i++)
RECURSIVE smoothRSI(_, _, _, _, _, _)
smoothRSI(prices_, i, period, avgGain, avgLoss, rsiValues) ==
    IF i >= Len(prices_)
    THEN rsiValues
    ELSE LET change == PriceAt(prices_, i).close - PriceAt(prices_, i - 1).close
             gain == IF change > 0 THEN change ELSE 0
             loss == IF change < 0 THEN Abs(change) ELSE 0
             newGain == wilderSmooth(avgGain, gain, period)
             newLoss == wilderSmooth(avgLoss, loss, period)
         IN  smoothRSI(prices_, i + 1, period, newGain, newLoss,
                 [rsiValues EXCEPT ![i + 1] = rsiFromAverages(newGain, newLoss)])

calculateRSI(prices_, period) ==
    IF Len(prices_) < period + 1
    THEN [k \in 1..Len(prices_) |-> NULL]
    ELSE LET seed == seedGainsLosses(prices_, 1, period)
             avgGain == Rat(seed.gains, period)
             avgLoss == Rat(seed.losses, period)
             rsiValues == [k \in 1..Len(prices_) |->
                              IF k = period + 1
                              THEN rsiFromAverages(avgGain, avgLoss)
                              ELSE NULL]
         IN  smoothRSI(prices_, period + 1, period, avgGain, avgLoss, rsiValues)

checkRSIOversoldTrigger(prices_, currentIndex, threshold, period) ==
    IF currentIndex < period \/ currentIndex >= Len(prices_)
    THEN [isTriggered |-> FALSE, rsiValue |-> NULL]
    ELSE LET rsiValue == RSIAt(calculateRSI(prices_, period), currentIndex)
         IN  IF rsiValue = NULL
             THEN [isTriggered |-> FALSE, rsiValue |-> NULL]
             ELSE [isTriggered |-> RatLE(rsiValue, RatInt(threshold)),
                   rsiValue |-> rsiValue]

checkRSIOverboughtTrigger(prices_, currentIndex, threshold, period) ==
    IF currentIndex < period \/ currentIndex >= Len(prices_)
    THEN [isTriggered |-> FALSE, rsiValue |-> NULL]
    ELSE LET rsiValue == RSIAt(calculateRSI(prices_, period), currentIndex)
         IN  IF rsiValue = NULL
             THEN [isTriggered |-> FALSE, rsiValue |-> NULL]
             ELSE [isTriggered |-> RatLE(RatInt(threshold), rsiValue),
                   rsiValue |-> rsiValue]

RECURSIVE scanRSIOversold(_, _, _, _)
scanRSIOversold(prices_, i, threshold, period) ==
    IF i < period THEN NULL
    ELSE IF checkRSIOversoldTrigger(prices_, i, threshold, period).isTriggered
         THEN PriceAt(prices_, i).date
         ELSE scanRSIOversold(prices_, i - 1, threshold, period)

findMostRecentRSIOversoldTriggerDate(prices_, threshold, period) ==
    scanRSIOversold(prices_, Len(prices_) - 1, threshold, period)

RECURSIVE scanRSIOverbought(_, _, _, _)
scanRSIOverbought(prices_, i, threshold, period) ==
    IF i < period THEN NULL
    ELSE IF checkRSIOverboughtTrigger(prices_, i, threshold, period).isTriggered
         THEN PriceAt(prices_, i).date
         ELSE scanRSIOverbought(prices_, i - 1, threshold, period)

findMostRecentRSIOverboughtTriggerDate(prices_, threshold, period) ==
    scanRSIOverbought(prices_, Len(prices_) - 1, threshold, period)

----------------------------------------------------------------------------
(* Bollinger bands: shared/indicators/bollingerBands.js *)

\* the period the catalogue builder passes; the source passes 20
BBPeriod == 3

\* the standard-deviation multiplier the catalogue builder passes
BBStdDev == 2

\* q + r * sqrt(v), for rationals q, r and v >= 0: a band keeps its square
\* root symbolic so that a close is compared with it exactly
Surd(q, r, v) == [q |-> q, r |-> r, v |-> v]
SurdAdd(a, b) == Surd(RatAdd(a.q, b.q), RatAdd(a.r, b.r), a.v)
SurdSub(a, b) == Surd(RatSub(a.q, b.q), RatSub(a.r, b.r), a.v)
SurdScale(a, k) == Surd(RatMul(a.q, k), RatMul(a.r, k), a.v)

\* r * sqrt(v) <= a
RootLE(r, v, a) ==
    IF r.n >= 0
    THEN a.n >= 0 /\ RatLE(RatMul(RatMul(r, r), v), RatMul(a, a))
    ELSE a.n >= 0 \/ RatLE(RatMul(a, a), RatMul(RatMul(r, r), v))

\* x <= q + r * sqrt(v)  and  q + r * sqrt(v) <= x, for a rational x
RatLESurd(x, b) ==
    RootLE(RatSub(RatInt(0), b.r), b.v, RatSub(b.q, x))
SurdLERat(b, x) == RootLE(b.r, b.v, RatSub(x, b.q))

RECURSIVE SumSquaredDifferences(_, _)
SumSquaredDifferences(window, sma) ==
    IF window = <<>> THEN RatInt(0)
    ELSE LET diff == RatSub(RatInt(Head(window).close), sma)
         IN  RatAdd(RatMul(diff, diff), SumSquaredDifferences(Tail(window), sma))

calculateBollingerBands(prices_, currentIndex, period, stdDev) ==
    IF currentIndex < period - 1 \/ currentIndex >= Len(prices_)
    THEN NULL
    ELSE LET startIndex == currentIndex - period + 1
             relevantPrices == slice(prices_, startIndex, currentIndex + 1)
             sma == Rat(SumClose(relevantPrices), period)
             variance ==
                 RatDiv(SumSquaredDifferences(relevantPrices, sma), RatInt(period))
         IN  [middle |-> sma,
              upper |-> Surd(sma, RatInt(stdDev), variance),
              lower |-> Surd(sma, RatInt(-stdDev), variance)]

\* a variant: the day's low is compared with the threshold
checkBBLowerTrigger_usesLow(prices_, currentIndex, period, stdDev, distancePercent) ==
    LET bb == calculateBollingerBands(prices_, currentIndex, period, stdDev)
    IN  IF bb = NULL
        THEN [isTriggered |-> FALSE, bb |-> NULL, threshold |-> NULL]
        ELSE LET bandWidth == SurdSub(bb.upper, bb.lower)
                 threshold ==
                     SurdAdd(bb.lower, SurdScale(bandWidth, Rat(distancePercent, 100)))
                 low == PriceAt(prices_, currentIndex).low
             IN  [isTriggered |-> RatLESurd(RatInt(low), threshold),
                  bb |-> bb, threshold |-> threshold]

checkBBLowerTrigger(prices_, currentIndex, period, stdDev, distancePercent) ==
    LET bb == calculateBollingerBands(prices_, currentIndex, period, stdDev)
    IN  IF bb = NULL
        THEN [isTriggered |-> FALSE, bb |-> NULL, threshold |-> NULL]
        ELSE LET bandWidth == SurdSub(bb.upper, bb.lower)
                 threshold ==
                     SurdAdd(bb.lower, SurdScale(bandWidth, Rat(distancePercent, 100)))
                 close == PriceAt(prices_, currentIndex).close
             IN  [isTriggered |-> RatLESurd(RatInt(close), threshold),
                  bb |-> bb, threshold |-> threshold]

checkBBUpperTrigger(prices_, currentIndex, period, stdDev, distancePercent) ==
    LET bb == calculateBollingerBands(prices_, currentIndex, period, stdDev)
    IN  IF bb = NULL
        THEN [isTriggered |-> FALSE, bb |-> NULL, threshold |-> NULL]
        ELSE LET bandWidth == SurdSub(bb.upper, bb.lower)
                 threshold ==
                     SurdSub(bb.upper, SurdScale(bandWidth, Rat(distancePercent, 100)))
                 close == PriceAt(prices_, currentIndex).close
             IN  [isTriggered |-> SurdLERat(threshold, RatInt(close)),
                  bb |-> bb, threshold |-> threshold]

RECURSIVE scanBBLower(_, _, _, _, _)
scanBBLower(prices_, i, period, stdDev, distancePercent) ==
    IF i < period - 1 THEN NULL
    ELSE IF checkBBLowerTrigger(prices_, i, period, stdDev, distancePercent).isTriggered
         THEN PriceAt(prices_, i).date
         ELSE scanBBLower(prices_, i - 1, period, stdDev, distancePercent)

findMostRecentBBLowerTriggerDate(prices_, period, stdDev, distancePercent) ==
    scanBBLower(prices_, Len(prices_) - 1, period, stdDev, distancePercent)

RECURSIVE scanBBUpper(_, _, _, _, _)
scanBBUpper(prices_, i, period, stdDev, distancePercent) ==
    IF i < period - 1 THEN NULL
    ELSE IF checkBBUpperTrigger(prices_, i, period, stdDev, distancePercent).isTriggered
         THEN PriceAt(prices_, i).date
         ELSE scanBBUpper(prices_, i - 1, period, stdDev, distancePercent)

findMostRecentBBUpperTriggerDate(prices_, period, stdDev, distancePercent) ==
    scanBBUpper(prices_, Len(prices_) - 1, period, stdDev, distancePercent)

----------------------------------------------------------------------------
(* Alarm catalogue builder: backend-js/UpdateSingleStockIndicators/index.js *)

Range(seq) == {seq[k] : k \in DOMAIN seq}

RECURSIVE ConcatAll(_)
ConcatAll(seqs) ==
    IF seqs = <<>> THEN <<>> ELSE Head(seqs) \o ConcatAll(Tail(seqs))

\* the parameter grids calculateAlarmList passes.  The source's are
\* [4, 8, 12, 24, 32, 52] weeks and [10, 50, 100, 200] MA periods; the model
\* keeps the shape of the grids with periods that fit in MaxLen points.
weekPeriods == <<2, 3>>
fluctuations == <<0, 10, 20>>
maPeriods == <<1, 2, 3>>
directions == <<"above", "below", "cross-up", "cross-down">>
dailyThresholds == <<1, 2, 3, 4, 5>>
oversoldThresholds == <<10, 20, 30>>
overboughtThresholds == <<70, 80, 90>>
distancePercents == <<0, 5, 10>>

\* for (const weeks of weekPeriods) { if (prices.length < days) continue; ... }
calculateAllNWeekLowTriggers(prices_, weekPeriods_, fluctuations_) ==
    ConcatAll([w \in 1..Len(weekPeriods_) |->
        LET weeks == weekPeriods_[w]
            days == weeks * DaysPerWeek
        IN  IF Len(prices_) < days
            THEN <<>>
            ELSE [f \in 1..Len(fluctuations_) |->
                     [weeks |-> weeks, fluctuation |-> fluctuations_[f],
                      previousTriggeredDate |->
                          findMostRecentTriggerDate(prices_, weeks, fluctuations_[f])]]])

calculateAllNWeekHighTriggers(prices_, weekPeriods_, fluctuations_) ==
    ConcatAll([w \in 1..Len(weekPeriods_) |->
        [f \in 1..Len(fluctuations_) |->
            [weeks |-> weekPeriods_[w], fluctuation |-> fluctuations_[f],
             previousTriggeredDate |->
                 findMostRecentTriggerDateHigh(prices_, weekPeriods_[w],
                                               fluctuations_[f])]]])

\* every pair ma1 < ma2 of the periods, every direction
calculateAllMACrossTriggers(prices_, maPeriods_, directions_) ==
    ConcatAll([i \in 1..Len(maPeriods_) |->
        ConcatAll([j \in 1..Len(maPeriods_) |->
            IF j <= i
            THEN <<>>
            ELSE [d \in 1..Len(directions_) |->
                LET ma1Period == maPeriods_[i]
                    ma2Period == maPeriods_[j]
                    direction == directions_[d]
                    triggerDate ==
                        IF direction = "cross-up"
                        THEN findMostRecentMACrossMA(prices_, ma1Period, ma2Period,
                                                     "golden")
                        ELSE IF direction = "cross-down"
                        THEN findMostRecentMACrossMA(prices_, ma1Period, ma2Period,
                                                     "death")
                        ELSE IF direction = "above" \/ direction = "below"
                        THEN findMostRecentMAPosition(prices_, ma1Period, ma2Period,
                                                      direction)
                        ELSE NULL
                IN  [type |-> "ma-cross", ma1Period |-> ma1Period,
                     ma2Period |-> ma2Period, direction |-> direction,
                     previousTriggeredDate |-> triggerDate]]])])

calculateAllDailyChangeTriggers(prices_) ==
    [t \in 1..Len(dailyThresholds) |->
        [alarmName |-> "DailyLoss" \o ToString(dailyThresholds[t]) \o "Percent",
         type |-> "daily-loss", threshold |-> dailyThresholds[t],
         previousTriggeredDate |->
             findMostRecentDailyLossTriggerDate(prices_, dailyThresholds[t])]]
    \o
    [t \in 1..Len(dailyThresholds) |->
        [alarmName |-> "DailyGain" \o ToString(dailyThresholds[t]) \o "Percent",
         type |-> "daily-gain", threshold |-> dailyThresholds[t],
         previousTriggeredDate |->
             findMostRecentDailyGainTriggerDate(prices_, dailyThresholds[t])]]

calculateAllRSITriggers(prices_, period) ==
    [t \in 1..Len(oversoldThresholds) |->
        [alarmName |-> "RSIOversold" \o ToString(oversoldThresholds[t]),
         type |-> "rsi-oversold", threshold |-> oversoldThresholds[t],
         period |-> period,
         previousTriggeredDate |->
             findMostRecentRSIOversoldTriggerDate(prices_, oversoldThresholds[t],
                                                  period)]]
    \o
    [t \in 1..Len(overboughtThresholds) |->
        [alarmName |-> "RSIOverbought" \o ToString(overboughtThresholds[t]),
         type |-> "rsi-overbought", threshold |-> overboughtThresholds[t],
         period |-> period,
         previousTriggeredDate |->
             findMostRecentRSIOverboughtTriggerDate(prices_, overboughtThresholds[t],
                                                    period)]]

calculateAllBBTriggers(prices_, period, stdDev, distancePercents_) ==
    [t \in 1..Len(distancePercents_) |->
        [alarmName |-> "BBLower" \o ToString(period) \o "Period" \o ToString(stdDev)
                           \o "StdDev" \o ToString(distancePercents_[t]) \o "Pct",
         type |-> "bb-lower", period |-> period, stdDev |-> stdDev,
         distancePercent |-> distancePercents_[t],
         previousTriggeredDate |->
             findMostRecentBBLowerTriggerDate(prices_, period, stdDev,
                                              distancePercents_[t])]]
    \o
    [t \in 1..Len(distancePercents_) |->
        [alarmName |-> "BBUpper" \o ToString(period) \o "Period" \o ToString(stdDev)
                           \o "StdDev" \o ToString(distancePercents_[t]) \o "Pct",
         type |-> "bb-upper", period |-> period, stdDev |-> stdDev,
         distancePercent |-> distancePercents_[t],
         previousTriggeredDate |->
             findMostRecentBBUpperTriggerDate(prices_, period, stdDev,
                                              distancePercents_[t])]]

\* `${trigger.weeks}WeekLow${trigger.fluctuation}Fluctuation`
lowAlarmName(trigger) ==
    ToString(trigger.weeks) \o "WeekLow" \o ToString(trigger.fluctuation)
        \o "Fluctuation"

\* the mutant: the high alarms are named with the low alarms' template
highAlarmName_asLow(trigger) ==
    ToString(trigger.weeks) \o "WeekLow" \o ToString(trigger.fluctuation)
        \o "Fluctuation"

\* `${trigger.weeks}WeekHigh${trigger.fluctuation}Fluctuation`
highAlarmName(trigger) ==
    ToString(trigger.weeks) \o "WeekHigh" \o ToString(trigger.fluctuation)
        \o "Fluctuation"

\* direction.split('-').map(capitalise).join('')
directionStr(direction) ==
    CASE direction = "above" -> "Above"
      [] direction = "below" -> "Below"
      [] direction = "cross-up" -> "CrossUp"
      [] direction = "cross-down" -> "CrossDown"

\* `MA${trigger.ma1Period}${directionStr}MA${trigger.ma2Period}`
maAlarmName(trigger) ==
    "MA" \o ToString(trigger.ma1Period) \o directionStr(trigger.direction)
        \o "MA" \o ToString(trigger.ma2Period)

\* if (priceData.length < 260): the handler builds no catalogue for a series
\* shorter than the longest N-week window (52 weeks of 5 trading days)
MinDataPoints == weekPeriods[Len(weekPeriods)] * DaysPerWeek

\* the list calculateAlarmList builds from scratch, family after family
freshAlarmList(prices_) ==
    LET lowTriggers == calculateAllNWeekLowTriggers(prices_, weekPeriods, fluctuations)
        highTriggers == calculateAllNWeekHighTriggers(prices_, weekPeriods, fluctuations)
        maTriggers == calculateAllMACrossTriggers(prices_, maPeriods, directions)
        dailyChangeTriggers == calculateAllDailyChangeTriggers(prices_)
        rsiTriggers == calculateAllRSITriggers(prices_, RSIPeriod)
        bbTriggers == calculateAllBBTriggers(prices_, BBPeriod, BBStdDev, distancePercents)
    IN  [k \in 1..Len(lowTriggers) |->
            [alarmName |-> lowAlarmName(lowTriggers[k]),
             weeks |-> lowTriggers[k].weeks,
             fluctuation |-> lowTriggers[k].fluctuation,
             previousTriggeredDate |-> lowTriggers[k].previousTriggeredDate]]
        \o
        [k \in 1..Len(highTriggers) |->
            [alarmName |-> highAlarmName(highTriggers[k]),
             weeks |-> highTriggers[k].weeks,
             fluctuation |-> highTriggers[k].fluctuation,
             previousTriggeredDate |-> highTriggers[k].previousTriggeredDate]]
        \o
        [k \in 1..Len(maTriggers) |->
            [alarmName |-> maAlarmName(maTriggers[k]),
             ma1Period |-> maTriggers[k].ma1Period,
             ma2Period |-> maTriggers[k].ma2Period,
             direction |-> maTriggers[k].direction,
             previousTriggeredDate |-> maTriggers[k].previousTriggeredDate]]
        \o dailyChangeTriggers
        \o rsiTriggers
        \o bbTriggers

\* the mutant: the new entries are pushed onto the list handed in
calculateAlarmList_ontoExisting(prices_, existingAlarmList) ==
    existingAlarmList \o freshAlarmList(prices_)

\* const alarmList = []; ... return alarmList;  existingAlarmList is not read
calculateAlarmList(prices_, existingAlarmList) ==
    freshAlarmList(prices_)

\* calculateAlarmList(prices, existingIndicators?.alarmList, context)
calculateTechnicalIndicators(prices_, existingIndicators) ==
    [alarmList |->
        calculateAlarmList(prices_,
            IF existingIndicators = NULL THEN NULL
            ELSE existingIndicators.alarmList)]

\* container.item(symbol, symbol).read() on a symbol with no document: the
\* SDK rejects with code 404, or resolves with resource undefined
MissingReads == {"rejects 404", "resource undefined"}

HasField(document, field) == document # NULL /\ field \in DOMAIN document

\* document.field = value
SetField(document, field, value) ==
    [f \in DOMAIN document \cup {field} |->
        IF f = field THEN value ELSE document[f]]

\* if (resource) return { alarmList: resource.alarmList || null }; return null;
\* and null from the catch of a 404
getExistingIndicatorsFromCosmos(stockDB_, symbol) ==
    LET resource == stockDB_[symbol]
    IN  IF resource # NULL
        THEN [alarmList |-> IF HasField(resource, "alarmList")
                            THEN resource.alarmList ELSE NULL]
        ELSE NULL

\* a variant: the document written is built anew from the symbol and the list
updateIndicatorsInCosmos_newDocument(stockDB_, symbol, indicators, missingRead) ==
    [thrown |-> FALSE,
     stockDB |-> [stockDB_ EXCEPT ![symbol] =
                     [id |-> symbol, symbol |-> symbol,
                      alarmList |-> indicators.alarmList]]]

\* read the document (a 404 gives { id: symbol, symbol: symbol }), set
\* document.alarmList = indicators.alarmList, upsert it
updateIndicatorsInCosmos(stockDB_, symbol, indicators, missingRead) ==
    LET resource == stockDB_[symbol]
        document == IF resource = NULL
                    THEN [id |-> symbol, symbol |-> symbol]
                    ELSE resource
    IN  IF resource = NULL /\ missingRead = "resource undefined"
        THEN [thrown |-> TRUE, stockDB |-> stockDB_]
        ELSE [thrown |-> FALSE,
              stockDB |-> [stockDB_ EXCEPT ![symbol] =
                              SetField(document, "alarmList", indicators.alarmList)]]

\* the body of the handler after the blob is read: 400 on a short series,
\* else read the existing indicators, compute, write; 500 when the write
\* throws.  The result is the response and the store as the run leaves it;
\* indicators.alarmList, counted in the response, is the array the document
\* written holds.
respondUpdated(updated, stockDB_, symbol) ==
    IF updated.thrown
    THEN [status |-> 500, alarmCount |-> 0, stockDB |-> stockDB_,
          reads |-> 2, writes |-> 0]
    ELSE [status |-> 200,
          alarmCount |-> Len(updated.stockDB[symbol].alarmList),
          stockDB |-> updated.stockDB,
          reads |-> 2, writes |-> 1]

\* a variant: a short series empties the list of the symbol's document
handleUpdateSingleStockIndicators_clearsList(priceData, stockDB_, symbol, missingRead) ==
    IF Len(priceData) < MinDataPoints
    THEN [status |-> 400, alarmCount |-> 0,
          stockDB |-> IF stockDB_[symbol] = NULL THEN stockDB_
                      ELSE [stockDB_ EXCEPT ![symbol] =
                               SetField(stockDB_[symbol], "alarmList", <<>>)],
          reads |-> 1, writes |-> 1]
    ELSE respondUpdated(
             updateIndicatorsInCosmos(stockDB_, symbol,
                 calculateTechnicalIndicators(priceData,
                     getExistingIndicatorsFromCosmos(stockDB_, symbol)),
                 missingRead),
             stockDB_, symbol)

\* reads / writes count the item(...).read() and items.upsert(...) calls the
\* run made: none before the length check, one read in
\* getExistingIndicatorsFromCosmos, one read and one upsert in
\* updateIndicatorsInCosmos
handleUpdateSingleStockIndicators(priceData, stockDB_, symbol, missingRead) ==
    IF Len(priceData) < MinDataPoints
    THEN [status |-> 400, alarmCount |-> 0, stockDB |-> stockDB_,
          reads |-> 0, writes |-> 0]
    ELSE respondUpdated(
             updateIndicatorsInCosmos(stockDB_, symbol,
                 calculateTechnicalIndicators(priceData,
                     getExistingIndicatorsFromCosmos(stockDB_, symbol)),
                 missingRead),
             stockDB_, symbol)

----------------------------------------------------------------------------
(* Series construction: getStockDataFromBlob of UpdateSingleStockIndicators *)

\* A line of the CSV file is [blank, cols, date, close]: whether it is blank,
\* the number of comma-separated columns, and the text of columns 0 and 5.
\* The text of a date column is [day |-> d] ("DD-MM-YYYY" of calendar day d)
\* or [junk |-> TRUE]; the text of a close column is [num |-> c] or junk.

\* the result of parseFloat on text that is no number; closes are positive
NaN == -1

\* new Date(NaN, NaN, NaN)
InvalidDate == [invalid |-> TRUE]

IsValidDate(date) == "time" \in DOMAIN date

\* the time zone of the host, in hours ahead of UTC
HostTz == 0

\* parts[0].trim().split('-'), parseInt of the three parts, new Date(y, m, d)
parseDate(text) ==
    IF "day" \in DOMAIN text THEN LocalMidnight(text.day, HostTz) ELSE InvalidDate

\* parseFloat(parts[5].trim())
parseFloat(text) ==
    IF "num" \in DOMAIN text THEN text.num ELSE NaN

\* csvContent.split('\n').filter(line => line.trim())
nonBlankLines(csvContent) == SelectSeq(csvContent, LAMBDA line : ~line.blank)

\* for (let i = 1; i < lines.length; i++) { if (parts.length >= 7) push }
\* (nothing in the try block throws: a row whose date or close does not
\* parse is pushed with an Invalid Date or a NaN close)
RECURSIVE parseLines(_, _)
parseLines(lines, i) ==
    IF i >= Len(lines)
    THEN <<>>
    ELSE LET line == PriceAt(lines, i)
         IN  (IF line.cols >= 7
              THEN <<[date |-> parseDate(line.date), close |-> parseFloat(line.close)]>>
              ELSE <<>>) \o parseLines(lines, i + 1)

RECURSIVE insertByDate(_, _)
insertByDate(sorted, p) ==
    IF sorted = <<>> THEN <<p>>
    ELSE IF Head(sorted).date.time <= p.date.time
         THEN <<Head(sorted)>> \o insertByDate(Tail(sorted), p)
         ELSE <<p>> \o sorted

RECURSIVE stableSortByDate(_)
stableSortByDate(points) ==
    IF points = <<>> THEN <<>>
    ELSE insertByDate(stableSortByDate(SubSeq(points, 1, Len(points) - 1)),
                      points[Len(points)])

Reorderings(points) ==
    {[k \in 1..Len(points) |-> points[f[k]]] :
        f \in {g \in [1..Len(points) -> 1..Len(points)] :
                  \A i, j \in 1..Len(points) : i # j => g[i] # g[j]}}

\* prices.sort((a, b) => a.date - b.date): the stable sort by time when every
\* date is valid.  With an Invalid Date the comparator returns NaN for some
\* pairs and is no consistent comparator, and the order of the result is
\* implementation-defined: any permutation.
sortByDate(points) ==
    IF \A k \in DOMAIN points : IsValidDate(points[k].date)
    THEN {stableSortByDate(points)}
    ELSE Reorderings(points)

\* the series getStockDataFromBlob can return for the CSV content
getStockDataFromBlob(csvContent) ==
    sortByDate(parseLines(nonBlankLines(csvContent), 1))

----------------------------------------------------------------------------
(* Batch run over the watchlist: DailyWatchlistUpdater *)

\* let successCount = 0; let failCount = 0; const results = [];
\* i is the position of the for-of loop, requests the GET requests sent
\* a watchlist container that plays no part in the run
NoStockDB == <<>>

NoBatch ==
    [i |-> 0, successCount |-> 0, failCount |-> 0, results |-> <<>>,
     requests |-> <<>>]

\* if (response.status === 200) { successCount++; results.push(success) }
onSuccess(batch_, stock) ==
    [batch_ EXCEPT !.successCount = @ + 1,
                   !.results = Append(@, [symbol |-> stock, status |-> "success"]),
                   !.requests = Append(@, stock),
                   !.i = @ + 1]

\* else { failCount++; results.push(failed) }
onOtherStatus(batch_, stock) ==
    [batch_ EXCEPT !.failCount = @ + 1,
                   !.results = Append(@, [symbol |-> stock, status |-> "failed"]),
                   !.requests = Append(@, stock),
                   !.i = @ + 1]

\* a variant: the error leaves the loop
onError_leavesLoop(batch_, stock, watchlist_) ==
    [batch_ EXCEPT !.failCount = @ + 1,
                   !.results = Append(@, [symbol |-> stock, status |-> "error"]),
                   !.requests = Append(@, stock),
                   !.i = Len(watchlist_)]

\* catch (error) { failCount++; results.push(error) } and the loop goes on
onError(batch_, stock, watchlist_) ==
    [batch_ EXCEPT !.failCount = @ + 1,
                   !.results = Append(@, [symbol |-> stock, status |-> "error"]),
                   !.requests = Append(@, stock),
                   !.i = @ + 1]

----------------------------------------------------------------------------
(* Composite matcher: backend-js/CheckUserAlerts/index.js *)

IsString(date) == "iso" \in DOMAIN date
IsDateObject(date) == "time" \in DOMAIN date

\* formatDateUTC: an ISO string is cut at its 'T'; a Date object is read
\* through its getUTC* getters; anything else gives null
formatDateUTC(date) ==
    IF date = NULL THEN NULL
    ELSE IF IsString(date) THEN [ymd |-> date.iso[1]]
    ELSE IF IsDateObject(date) THEN [ymd |-> date.time \div 24]
    ELSE NULL

\* alarmList.find(a => a.alarmName === alarmName): the first entry of that
\* name, NULL (undefined) when there is none
find(alarmList_, alarmName) ==
    LET hits == {k \in DOMAIN alarmList_ : alarmList_[k].alarmName = alarmName}
    IN  IF hits = {} THEN NULL
        ELSE alarmList_[CHOOSE k \in hits : \A j \in hits : k <= j]

\* the mutant: an alarm missing from the list is skipped instead of failing
RECURSIVE checkIfAllAlarmsTriggeredOnDate_skipMissing(_, _, _)
checkIfAllAlarmsTriggeredOnDate_skipMissing(alertOptions, alarmList_, targetDate) ==
    IF alertOptions = <<>> THEN TRUE
    ELSE LET alarm == find(alarmList_, Head(alertOptions))
         IN  IF alarm = NULL
             THEN checkIfAllAlarmsTriggeredOnDate_skipMissing(
                      Tail(alertOptions), alarmList_, targetDate)
             ELSE IF alarm.previousTriggeredDate = NULL THEN FALSE
             ELSE IF formatDateUTC(alarm.previousTriggeredDate) # targetDate
                  THEN FALSE
             ELSE checkIfAllAlarmsTriggeredOnDate_skipMissing(
                      Tail(alertOptions), alarmList_, targetDate)

\* for (const alarmName of alertOptions) { ... return false ... } return true
RECURSIVE checkIfAllAlarmsTriggeredOnDate(_, _, _)
checkIfAllAlarmsTriggeredOnDate(alertOptions, alarmList_, targetDate) ==
    IF alertOptions = <<>> THEN TRUE
    ELSE LET alarm == find(alarmList_, Head(alertOptions))
         IN  IF alarm = NULL THEN FALSE
             ELSE IF alarm.previousTriggeredDate = NULL THEN FALSE
             ELSE IF formatDateUTC(alarm.previousTriggeredDate) # targetDate
                  THEN FALSE
             ELSE checkIfAllAlarmsTriggeredOnDate(
                      Tail(alertOptions), alarmList_, targetDate)

\* getUserInfo: the user's document, null on a 404
getUserInfo(userDB_, userId) ==
    IF userDB_ # NULL /\ userDB_.id = userId THEN userDB_ ELSE NULL

\* getStockAlarms: the symbol's document of the watchlist container, null on
\* a 404
getStockAlarms(stockDB_, symbol) ==
    IF symbol \in DOMAIN stockDB_ THEN stockDB_[symbol] ELSE NULL

\* a variant: an alert with an empty alertOption list is handed to the matcher
RECURSIVE triggeredAlertsOf_emptyOptions(_, _, _)
triggeredAlertsOf_emptyOptions(alertList, stockDB_, checkDate) ==
    IF alertList = <<>> THEN <<>>
    ELSE LET alert == Head(alertList)
             rest == triggeredAlertsOf_emptyOptions(Tail(alertList), stockDB_,
                                                    checkDate)
             stockAlarms == getStockAlarms(stockDB_, alert.symbol)
         IN  IF alert.symbol = ""
             THEN rest
             ELSE IF ~HasField(stockAlarms, "alarmList")
             THEN rest
             ELSE IF checkIfAllAlarmsTriggeredOnDate(alert.alertOption,
                         stockAlarms.alarmList, checkDate)
             THEN <<[symbol |-> alert.symbol, alertOption |-> alert.alertOption,
                     triggeredDate |-> checkDate]>> \o rest
             ELSE rest

\* for (const alert of userInfo.alertList) { ... triggeredAlerts.push(...) }
RECURSIVE triggeredAlertsOf(_, _, _)
triggeredAlertsOf(alertList, stockDB_, checkDate) ==
    IF alertList = <<>> THEN <<>>
    ELSE LET alert == Head(alertList)
             rest == triggeredAlertsOf(Tail(alertList), stockDB_, checkDate)
             stockAlarms == getStockAlarms(stockDB_, alert.symbol)
         IN  IF alert.symbol = "" \/ alert.alertOption = <<>>
             THEN rest
             ELSE IF ~HasField(stockAlarms, "alarmList")
             THEN rest
             ELSE IF checkIfAllAlarmsTriggeredOnDate(alert.alertOption,
                         stockAlarms.alarmList, checkDate)
             THEN <<[symbol |-> alert.symbol, alertOption |-> alert.alertOption,
                     triggeredDate |-> checkDate]>> \o rest
             ELSE rest

\* the response of the handler: 400 without userId or with a date that is
\* not YYYY-MM-DD, 200 with an empty list for a user without alerts, 200
\* with the alerts whose options all triggered on the check date
responseOfCheckUserAlerts(req, today, userDB_, stockDB_) ==
    IF req.userId = ""
    THEN [status |-> 400, triggeredAlerts |-> <<>>]
    ELSE IF req.date # NULL /\ "ymd" \notin DOMAIN req.date
    THEN [status |-> 400, triggeredAlerts |-> <<>>]
    ELSE LET checkDate == IF req.date = NULL THEN [ymd |-> today] ELSE req.date
             userInfo == getUserInfo(userDB_, req.userId)
         IN  IF ~HasField(userInfo, "alertList") \/ userInfo.alertList = <<>>
             THEN [status |-> 200, triggeredAlerts |-> <<>>]
             ELSE LET triggeredAlerts ==
                          triggeredAlertsOf(userInfo.alertList, stockDB_, checkDate)
                  IN  [status |-> 200,
                       totalAlerts |-> Len(userInfo.alertList),
                       triggeredCount |-> Len(triggeredAlerts),
                       triggeredAlerts |-> triggeredAlerts]

\* a variant: the handler stamps the user's document with the date checked
CheckUserAlerts_stampsUser(req, today, userDB_, stockDB_) ==
    [res |-> responseOfCheckUserAlerts(req, today, userDB_, stockDB_),
     userDB |-> IF getUserInfo(userDB_, req.userId) # NULL
                THEN SetField(userDB_, "lastChecked", today)
                ELSE userDB_,
     stockDB |-> stockDB_]

\* module.exports of CheckUserAlerts: the response, and the two stores as
\* the handler leaves them (it calls item(...).read() and nothing else)
CheckUserAlerts(req, today, userDB_, stockDB_) ==
    [res |-> responseOfCheckUserAlerts(req, today, userDB_, stockDB_),
     userDB |-> userDB_,
     stockDB |-> stockDB_]

----------------------------------------------------------------------------
(* Concurrent batch of the C# updater: DailyStockUpdater.UpdateStocksAsync *)

\* var semaphore = new SemaphoreSlim(3)
SemaphorePermits == 3

\* a task of stocks.Select(async stock => ...) before semaphore.WaitAsync()
NewTask == [pc |-> "WaitAsync", result |-> NULL]

\* the tasks whose CallUpdateApiAsync request is in flight
InFlight(tasks_) == {k \in DOMAIN tasks_ : tasks_[k].pc = "CallUpdateApiAsync"}

\* a variant: the permit is given back at the end of the try block only
Release_endOfTry(semaphore_, from) ==
    IF from = "catch" THEN semaphore_ ELSE semaphore_ + 1

\* finally { semaphore.Release(); }: reached from the try block and from
\* the catch block alike
Release(semaphore_, from) == semaphore_ + 1

----------------------------------------------------------------------------
(* The catalogue as the container stores it *)

\* Date.prototype.toISOString, which JSON.stringify applies to a Date on
\* upsert: the UTC calendar day and the UTC hour of the instant
toISOString(date) == [iso |-> <<date.time \div 24, date.time % 24>>]

\* the alarm list of the upserted document: every previousTriggeredDate that
\* is a Date is stored as its ISO string, null stays null
storedAlarmList(alarmList_) ==
    [k \in DOMAIN alarmList_ |->
        IF alarmList_[k].previousTriggeredDate = NULL
        THEN alarmList_[k]
        ELSE SetField(alarmList_[k], "previousTriggeredDate",
                      toISOString(alarmList_[k].previousTriggeredDate))]

----------------------------------------------------------------------------
(* UpdateStockFromYahoo: the symbol's CSV blob is read, extended, uploaded *)

\* the CSV blob is the sequence of the dates of its data rows (the header is
\* not in it), the provider's history the sequence of its trading days; a
\* date is [day |-> d], the DD-MM-YYYY text and the local midnight it stands for

\* one invocation before its first await: let startDate; let lastDataDate =
\* null; let isNewFile = false
NewInvocation ==
    [pc |-> "start", lastDataDate |-> NULL, isNewFile |-> FALSE,
     stockData |-> <<>>, existingContent |-> <<>>]

\* getLastDateFromBlob: the date of the last line when the content has more
\* than the header, null otherwise
getLastDateFromBlob(content) ==
    IF Len(content) > 0 THEN content[Len(content)] ELSE NULL

\* fetchStockDataFromYahoo(symbol, startDate, new Date()): the provider's
\* days from startDate on (all of them for a new file), sorted by date
fetchStockDataFromYahoo(history, lastDataDate) ==
    SelectSeq(history, LAMBDA d : lastDataDate = NULL \/ d.day >= lastDataDate.day + 1)

\* appendCsvToBlob: existingContent.trimEnd() + '\n' + dataLines
appendedContent(existingContent, stockData) == existingContent \o stockData

----------------------------------------------------------------------------
(* The browser's chart markers: StockViewer of the frontend *)

\* const lowDays = lowWeeks * 7: the viewer counts calendar days, two more a
\* week than the trading days of the shared detector
ViewerDaysPerWeek == DaysPerWeek + 2

\* the sum of the gains (or of the losses) of the changes prices[i] -
\* prices[i - 1] for i = from .. Len(closes) - 1
RECURSIVE sumRecentChanges(_, _, _)
sumRecentChanges(closes, i, gains) ==
    IF i >= Len(closes)
    THEN 0
    ELSE LET change == closes[i + 1] - closes[i]
         IN  (IF gains
              THEN (IF change > 0 THEN change ELSE 0)
              ELSE (IF change > 0 THEN 0 ELSE Abs(change)))
             + sumRecentChanges(closes, i + 1, gains)

\* StockViewer.calculateRSI(data, period): the averages of the gains and of
\* the losses of the last period changes
StockViewer_calculateRSI(data, period) ==
    IF Len(data) < period + 1
    THEN NULL
    ELSE LET closes == MapClose(data)
             \* changes.slice(-period): the changes of i = length-period ..
             first == Len(closes) - period
             avgGain == Rat(sumRecentChanges(closes, first, TRUE), period)
             avgLoss == Rat(sumRecentChanges(closes, first, FALSE), period)
         IN  rsiFromAverages(avgGain, avgLoss)

\* StockViewer.checkAlarmCondition(type, alarm, dataPoint, fullDataIndex) on
\* this.currentData with this.rsiPeriod
checkAlarmCondition(type, alarm, dataPoint, fullDataIndex, currentData, rsiPeriod) ==
    CASE type = "nweek-low" ->
            LET lowWeeks == alarm.value
                lowDays == lowWeeks * ViewerDaysPerWeek
                startIdx == MathMax(<<0, fullDataIndex - lowDays>>)
                recentData == slice(currentData, startIdx, fullDataIndex + 1)
                lowestPrice == MathMin(MapClose(recentData))
            IN  dataPoint.close = lowestPrice
      [] type = "rsi-oversold" ->
            LET dataUpToPoint == slice(currentData, 0, fullDataIndex + 1)
            IN  IF Len(dataUpToPoint) <= rsiPeriod
                THEN FALSE
                ELSE LET rsi == StockViewer_calculateRSI(dataUpToPoint, rsiPeriod)
                     IN  rsi # NULL /\ RatLE(rsi, RatInt(alarm.value))
      [] type = "rsi-overbought" ->
            LET dataUpToPoint == slice(currentData, 0, fullDataIndex + 1)
            IN  IF Len(dataUpToPoint) <= rsiPeriod
                THEN FALSE
                ELSE LET rsi == StockViewer_calculateRSI(dataUpToPoint, rsiPeriod)
                     IN  rsi # NULL /\ RatLE(RatInt(alarm.value), rsi)

----------------------------------------------------------------------------
(* Inputs enumerated by the specifications *)

\* the series of n points on consecutive days, every close drawn from Closes
SeriesOfLen(n) ==
    {[k \in 1..n |-> [date |-> LocalMidnight(FirstDay + k - 1, HostTz),
                      close |-> c[k]]] : c \in [1..n -> Closes]}

AllSeries == UNION {SeriesOfLen(n) : n \in 0..MaxLen}

\* the closes of the series the N-week high detector is run on: closes just
\* below the high of a window
HighCloses == {100, 108, 109, 110}

HighSeries ==
    UNION {{[k \in 1..n |-> [date |-> LocalMidnight(FirstDay + k - 1, HostTz),
                              close |-> c[k]]] : c \in [1..n -> HighCloses]} :
           n \in 0..MaxLen}

\* the closes of the series the daily-change detector is run on: steps of
\* exactly 3 and 5 percent and steps in between
DailyCloses == {95, 97, 100, 103}

DailySeries ==
    UNION {{[k \in 1..n |-> [date |-> LocalMidnight(FirstDay + k - 1, HostTz),
                              close |-> c[k]]] : c \in [1..n -> DailyCloses]} :
           n \in 0..MaxLen}

\* the gap between a day's close and its low, and its high
LowGap == 5

\* the series the Bollinger detector is run on: the points carry the day's
\* low and high next to the close
BBSeries ==
    UNION {{[k \in 1..n |-> [date |-> LocalMidnight(FirstDay + k - 1, HostTz),
                              close |-> c[k], low |-> c[k] - LowGap,
                              high |-> c[k] + LowGap]] : c \in [1..n -> Closes]} :
           n \in 0..MaxLen}

\* the band widths in standard deviations the detector is called with
StdDevs == {1, BBStdDev}

\* the symbols of the watchlist container
StoreSymbols == {"AAPL", "MSFT"}

\* the closes of the series a symbol's indicators are updated from
UpdateCloses == {100, 110}

\* the series of a symbol's blob: one point short of the required history,
\* the required history, and one point more
UpdateSeries ==
    UNION {{[k \in 1..n |-> [date |-> LocalMidnight(FirstDay + k - 1, HostTz),
                              close |-> c[k]]] : c \in [1..n -> UpdateCloses]} :
           n \in (MinDataPoints - 1)..(MinDataPoints + 1)}

\* the lists earlier runs left in a document: entries of an earlier day
StoredAlarmLists ==
    {<<[alarmName |-> "2WeekLow0Fluctuation", weeks |-> 2, fluctuation |-> 0,
        previousTriggeredDate |-> d]>> :
        d \in {NULL, LocalMidnight(FirstDay - 1, HostTz)}}

\* a document of the watchlist container: none, one that never got a list,
\* or one with a list and the fields earlier writers left in it
DocumentsOf(symbol) ==
    {NULL}
    \cup {[id |-> symbol, symbol |-> symbol, n_week_low |-> low] : low \in {95, 97}}
    \cup {[id |-> symbol, symbol |-> symbol, n_week_low |-> low, alarmList |-> l] :
            low \in {95, 97}, l \in StoredAlarmLists}

StockDBs ==
    {db \in [StoreSymbols -> UNION {DocumentsOf(x) : x \in StoreSymbols}] :
        /\ db["AAPL"] \in DocumentsOf("AAPL")
        /\ db["MSFT"] \in {NULL, [id |-> "MSFT", symbol |-> "MSFT", n_week_low |-> 97]}}

\* the alarms a user sets on the chart: the weeks of an N-week-low marker,
\* the thresholds of the RSI markers
ViewerAlarms ==
    {<<"nweek-low", [value |-> w]>> : w \in {1, 2}}
    \cup {<<"rsi-oversold", [value |-> t]>> : t \in Range(oversoldThresholds)}
    \cup {<<"rsi-overbought", [value |-> t]>> : t \in Range(overboughtThresholds)}

\* most active stocks handed to UpdateStocksAsync
MaxTasks == 5

\* the closes of the series the builder is run on
BuilderCloses == {100, 102, 110}

BuilderSeries ==
    UNION {{[k \in 1..n |-> [date |-> LocalMidnight(FirstDay + k - 1, HostTz),
                              close |-> c[k]]] : c \in [1..n -> BuilderCloses]} :
           n \in 0..MaxLen}

\* the day the matcher is asked about
CheckDay == 20

\* names the matcher is asked for / finds in a catalogue
MatcherNames == {"2WeekLow0Fluctuation", "RSIOversold30", "DailyLoss1Percent"}

\* a persisted previousTriggeredDate: null, or the ISO string of an instant
\* of the check day or of the day before
StoredDates ==
    {NULL} \cup {[iso |-> <<d, h>>] : d \in {CheckDay - 1, CheckDay}, h \in {0, 7}}

\* catalogues of at most three entries with pairwise distinct names
Catalogues ==
    UNION {{[k \in 1..n |-> [alarmName |-> nm[k], previousTriggeredDate |-> dt[k]]] :
                nm \in {f \in [1..n -> MatcherNames] :
                            \A i, j \in 1..n : i # j => f[i] # f[j]},
                dt \in [1..n -> StoredDates]} : n \in 0..3}

\* non-empty alertOption arrays of one or two names
AlertOptionLists ==
    {<<a>> : a \in MatcherNames} \cup {<<a, b>> : a, b \in MatcherNames}

\* the alertOption arrays of a user's alerts: none, one name, two names
UserAlertOptions ==
    {<<>>, <<"2WeekLow0Fluctuation">>, <<"2WeekLow0Fluctuation", "RSIOversold30">>}

\* a user's alertList: up to MaxAlerts alerts, a symbol possibly empty or
\* not in the watchlist
MaxAlerts == 2

UserAlertLists ==
    UNION {[1..n -> {[symbol |-> sy, alertOption |-> o] :
                        sy \in {"", "AAPL", "MSFT", "TD"}, o \in UserAlertOptions}] :
           n \in 0..MaxAlerts}

\* the user's document: none, one without alertList, one with an alertList
UserDBs ==
    {NULL, [id |-> "u1"]} \cup {[id |-> "u1", alertList |-> l] : l \in UserAlertLists}

\* the lists stored for a symbol: the first names of a user's options, dated
\* null, the check day or the day before
AlertCatalogues ==
    {<<>>}
    \cup {<<[alarmName |-> "2WeekLow0Fluctuation", previousTriggeredDate |-> d]>> :
            d \in {NULL, [iso |-> <<CheckDay, 7>>]}}
    \cup {<<[alarmName |-> "2WeekLow0Fluctuation", previousTriggeredDate |-> d1],
            [alarmName |-> "RSIOversold30", previousTriggeredDate |-> d2]>> :
            d1 \in {[iso |-> <<CheckDay, 7>>]},
            d2 \in {NULL, [iso |-> <<CheckDay - 1, 7>>], [iso |-> <<CheckDay, 0>>]}}

AlertStockDBs ==
    {db \in [StoreSymbols ->
                {NULL} \cup {[id |-> sy, symbol |-> sy] : sy \in StoreSymbols}
                \cup {[id |-> sy, symbol |-> sy, alarmList |-> l] :
                        sy \in StoreSymbols, l \in AlertCatalogues}] :
        /\ \A sy \in StoreSymbols : db[sy] # NULL => db[sy].id = sy
        /\ HasField(db["MSFT"], "alarmList") => Len(db["MSFT"].alarmList) = 2}

\* the requests: userId missing, of the user, of nobody; date missing, a
\* YYYY-MM-DD day, or a string of another form
CheckRequests ==
    {[userId |-> u, date |-> d] :
        u \in {"", "u1", "u2"},
        d \in {NULL, [ymd |-> CheckDay], [junk |-> TRUE]}}

\* the offsets from UTC, in hours, of the hosts the CSV rows are parsed on
\* (new Date(y, m, d) is local midnight): behind UTC, UTC, ahead of UTC
HostTzs == {0 - 7, 0, 8}

\* series long enough for the catalogue, parsed on a host of each offset
EndToEndSeries ==
    UNION {{[k \in 1..n |-> [date |-> LocalMidnight(FirstDay + k - 1, tz),
                              close |-> c[k]]] : c \in [1..n -> BuilderCloses]} :
           n \in MinDataPoints..MaxLen, tz \in HostTzs}

\* the alertOption lists asked about the latest day: every name of the stored
\* catalogue alone and together with one of the matcher's names, and a name
\* no catalogue has
LatestDayOptions(alarmList_) ==
    {<<alarmList_[k].alarmName>> : k \in DOMAIN alarmList_}
    \cup {<<alarmList_[k].alarmName, m>> : k \in DOMAIN alarmList_, m \in MatcherNames}
    \cup {<<"NoSuchAlarm">>}

\* most trading days the provider has for the symbol
MaxDays == 3

\* the provider's history up to a day, and the CSV files holding a prefix of it
Histories == {[k \in 1..n |-> [day |-> FirstDay + k - 1]] : n \in 1..(MaxDays - 1)}

\* closes that put a point inside each tolerance band of a window, below its
\* high and above its low
ToleranceCloses == {100, 102, 108, 110}

ToleranceSeries ==
    UNION {{[k \in 1..n |-> [date |-> LocalMidnight(FirstDay + k - 1, HostTz),
                              close |-> c[k]]] : c \in [1..n -> ToleranceCloses]} :
           n \in 0..MaxLen}

\* the offsets from UTC, in hours, a host's time zone can have
AllHostTzs == (0 - 12)..14

\* most data rows of the CSV files whose dates are taken through the round trip
MaxRowDays == 5

\* most runs of the builder in a row on one series
MaxRuns == 2

\* the lines a CSV file is made of
HeaderLine == [blank |-> FALSE, cols |-> 7, date |-> [junk |-> TRUE],
               close |-> [junk |-> TRUE]]

DataLines ==
    {[blank |-> FALSE, cols |-> 7, date |-> [day |-> d], close |-> [num |-> c]] :
        d \in {FirstDay, FirstDay + 1}, c \in {100, 101}}
    \cup {[blank |-> FALSE, cols |-> 6, date |-> [day |-> FirstDay],
           close |-> [num |-> 100]],
          [blank |-> FALSE, cols |-> 7, date |-> [junk |-> TRUE],
           close |-> [num |-> 100]],
          [blank |-> FALSE, cols |-> 7, date |-> [day |-> FirstDay],
           close |-> [junk |-> TRUE]],
          [blank |-> TRUE, cols |-> 1, date |-> [junk |-> TRUE],
           close |-> [junk |-> TRUE]]}

\* one-row CSV files, the row dated one of the days from FirstDay on
OneRowFiles ==
    {<<HeaderLine, [blank |-> FALSE, cols |-> 7, date |-> [day |-> d],
                    close |-> [num |-> 100]]>> :
        d \in FirstDay..(FirstDay + MaxRowDays - 1)}

\* most lines a CSV file has after its header
MaxRows == 3

\* a header line followed by at most MaxRows lines
CsvContents ==
    UNION {{<<HeaderLine>> \o rows : rows \in [1..n -> DataLines]} : n \in 0..MaxRows}

\* the symbols a watchlist can hold
Symbols == {"AAPL", "MSFT", "TD"}

\* most symbols in the watchlist
MaxStocks == 3

\* the watchlists: the ids of the container's documents, each once
Watchlists ==
    UNION {{w \in [1..n -> Symbols] : \A i, j \in 1..n : i # j => w[i] # w[j]} :
           n \in 0..MaxStocks}

----------------------------------------------------------------------------
(* The calls *)

Idle == [op |-> "none"]

CallCheckNWeekLowTrigger ==
    /\ pc = "idle"
    /\ \E i \in 0..MaxLen, w \in Range(weekPeriods), f \in Range(fluctuations) :
          /\ call' = [op |-> "checkNWeekLowTrigger", currentIndex |-> i,
                      weeks |-> w, fluctuation |-> f]
          /\ ret' = checkNWeekLowTrigger(prices, i, w, f)
    /\ pc' = "done"
    /\ UNCHANGED <<prices, alarmList, blob, watchlist, semaphore, tasks, stockDB, userDB, batch>>

CallFindMostRecentTriggerDate ==
    /\ pc = "idle"
    /\ \E w \in Range(weekPeriods), f \in Range(fluctuations) :
          /\ call' = [op |-> "findMostRecentTriggerDate",
                      weeks |-> w, fluctuation |-> f]
          /\ ret' = findMostRecentTriggerDate(prices, w, f)
    /\ pc' = "done"
    /\ UNCHANGED <<prices, alarmList, blob, watchlist, semaphore, tasks, stockDB, userDB, batch>>

CallCheckIfAllAlarmsTriggeredOnDate ==
    /\ pc = "idle"
    /\ \E opts \in AlertOptionLists, d \in {CheckDay - 1, CheckDay} :
          /\ call' = [op |-> "checkIfAllAlarmsTriggeredOnDate",
                      alertOptions |-> opts, targetDate |-> [ymd |-> d]]
          /\ ret' = checkIfAllAlarmsTriggeredOnDate(opts, alarmList, [ymd |-> d])
    /\ pc' = "done"
    /\ UNCHANGED <<prices, alarmList, blob, watchlist, semaphore, tasks, stockDB, userDB, batch>>

CallCheckMACrossMA ==
    /\ pc = "idle"
    /\ \E i \in 0..(MaxLen - 1), p1 \in Range(maPeriods), p2 \in Range(maPeriods) :
          /\ p1 < p2
          /\ i < Len(prices)
          /\ call' = [op |-> "checkMACrossMA", currentIndex |-> i,
                      shortPeriod |-> p1, longPeriod |-> p2]
          /\ ret' = checkMACrossMA(prices, i, p1, p2)
    /\ pc' = "done"
    /\ UNCHANGED <<prices, alarmList, blob, watchlist, semaphore, tasks, stockDB, userDB, batch>>

CallFindMostRecentMACrossMA ==
    /\ pc = "idle"
    /\ \E p1 \in Range(maPeriods), p2 \in Range(maPeriods),
          d \in {"golden", "death"} :
          /\ p1 < p2
          /\ call' = [op |-> "findMostRecentMACrossMA", shortPeriod |-> p1,
                      longPeriod |-> p2, direction |-> d]
          /\ ret' = findMostRecentMACrossMA(prices, p1, p2, d)
    /\ pc' = "done"
    /\ UNCHANGED <<prices, alarmList, blob, watchlist, semaphore, tasks, stockDB, userDB, batch>>

CallCalculateAllMACrossTriggers ==
    /\ pc = "idle"
    /\ call' = [op |-> "calculateAllMACrossTriggers"]
    /\ ret' = calculateAllMACrossTriggers(prices, maPeriods, directions)
    /\ pc' = "done"
    /\ UNCHANGED <<prices, alarmList, blob, watchlist, semaphore, tasks, stockDB, userDB, batch>>

CallCalculateRSI ==
    /\ pc = "idle"
    /\ \E period \in {RSIPeriod, RSIPeriod + 1} :
          /\ call' = [op |-> "calculateRSI", period |-> period]
          /\ ret' = calculateRSI(prices, period)
    /\ pc' = "done"
    /\ UNCHANGED <<prices, alarmList, blob, watchlist, semaphore, tasks, stockDB, userDB, batch>>

\* one run of the builder: the list stored by the previous run is handed in
\* as existingAlarmList, and the list returned is stored in its place
CallCalculateAlarmList ==
    /\ (call.op = "calculateAlarmList" /\ call.prices = prices) => call.run < MaxRuns
    /\ call' = [op |-> "calculateAlarmList", prices |-> prices,
                run |-> IF call.op = "calculateAlarmList" /\ call.prices = prices
                        THEN call.run + 1 ELSE 1]
    /\ ret' = calculateTechnicalIndicators(prices, [alarmList |-> alarmList]).alarmList
    /\ alarmList' = ret'
    /\ pc' = "done"
    /\ UNCHANGED <<prices, blob, watchlist, semaphore, tasks, stockDB, userDB, batch>>

\* between two runs of the builder the series gains one trading day
AppendPoint ==
    /\ pc = "done"
    /\ Len(prices) < MaxLen
    /\ \E c \in BuilderCloses :
          prices' = Append(prices,
                        [date |-> LocalMidnight(FirstDay + Len(prices), HostTz),
                         close |-> c])
    /\ pc' = "idle"
    /\ UNCHANGED <<alarmList, blob, watchlist, semaphore, tasks, stockDB, userDB, batch, call, ret>>

CallGetStockDataFromBlob ==
    /\ pc = "idle"
    /\ call' = [op |-> "getStockDataFromBlob"]
    /\ ret' \in getStockDataFromBlob(blob)
    /\ pc' = "done"
    /\ UNCHANGED <<prices, alarmList, blob, watchlist, semaphore, tasks, stockDB, userDB, batch>>

CallCheckNWeekHighTrigger ==
    /\ pc = "idle"
    /\ \E i \in 0..MaxLen, w \in Range(weekPeriods), f \in Range(fluctuations) :
          /\ call' = [op |-> "checkNWeekHighTrigger", currentIndex |-> i,
                      weeks |-> w, fluctuation |-> f]
          /\ ret' = checkNWeekHighTrigger(prices, i, w, f)
    /\ pc' = "done"
    /\ UNCHANGED <<prices, alarmList, blob, watchlist, semaphore, tasks, stockDB, userDB, batch>>

CallFindMostRecentTriggerDateHigh ==
    /\ pc = "idle"
    /\ \E w \in Range(weekPeriods), f \in Range(fluctuations) :
          /\ call' = [op |-> "findMostRecentTriggerDateHigh",
                      weeks |-> w, fluctuation |-> f]
          /\ ret' = findMostRecentTriggerDateHigh(prices, w, f)
    /\ pc' = "done"
    /\ UNCHANGED <<prices, alarmList, blob, watchlist, semaphore, tasks, stockDB, userDB, batch>>

CallCalculateAllNWeekLowTriggers ==
    /\ pc = "idle"
    /\ call' = [op |-> "calculateAllNWeekLowTriggers"]
    /\ ret' = calculateAllNWeekLowTriggers(prices, weekPeriods, fluctuations)
    /\ pc' = "done"
    /\ UNCHANGED <<prices, alarmList, blob, watchlist, semaphore, tasks, stockDB, userDB, batch>>

CallCalculateAllNWeekHighTriggers ==
    /\ pc = "idle"
    /\ call' = [op |-> "calculateAllNWeekHighTriggers"]
    /\ ret' = calculateAllNWeekHighTriggers(prices, weekPeriods, fluctuations)
    /\ pc' = "done"
    /\ UNCHANGED <<prices, alarmList, blob, watchlist, semaphore, tasks, stockDB, userDB, batch>>

CallCalculateAllDailyChangeTriggers ==
    /\ pc = "idle"
    /\ call' = [op |-> "calculateAllDailyChangeTriggers"]
    /\ ret' = calculateAllDailyChangeTriggers(prices)
    /\ pc' = "done"
    /\ UNCHANGED <<prices, alarmList, blob, watchlist, semaphore, tasks, stockDB, userDB, batch>>

CallCalculateAllRSITriggers ==
    /\ pc = "idle"
    /\ call' = [op |-> "calculateAllRSITriggers"]
    /\ ret' = calculateAllRSITriggers(prices, RSIPeriod)
    /\ pc' = "done"
    /\ UNCHANGED <<prices, alarmList, blob, watchlist, semaphore, tasks, stockDB, userDB, batch>>

CallCalculateAllBBTriggers ==
    /\ pc = "idle"
    /\ call' = [op |-> "calculateAllBBTriggers"]
    /\ ret' = calculateAllBBTriggers(prices, BBPeriod, BBStdDev, distancePercents)
    /\ pc' = "done"
    /\ UNCHANGED <<prices, alarmList, blob, watchlist, semaphore, tasks, stockDB, userDB, batch>>

CallCheckDailyLossTrigger ==
    /\ pc = "idle"
    /\ \E i \in 0..MaxLen, t \in Range(dailyThresholds) :
          /\ call' = [op |-> "checkDailyLossTrigger", currentIndex |-> i,
                      thresholdPercent |-> t]
          /\ ret' = checkDailyLossTrigger(prices, i, t)
    /\ pc' = "done"
    /\ UNCHANGED <<prices, alarmList, blob, watchlist, semaphore, tasks, stockDB, userDB, batch>>

CallCheckDailyGainTrigger ==
    /\ pc = "idle"
    /\ \E i \in 0..MaxLen, t \in Range(dailyThresholds) :
          /\ call' = [op |-> "checkDailyGainTrigger", currentIndex |-> i,
                      thresholdPercent |-> t]
          /\ ret' = checkDailyGainTrigger(prices, i, t)
    /\ pc' = "done"
    /\ UNCHANGED <<prices, alarmList, blob, watchlist, semaphore, tasks, stockDB, userDB, batch>>

CallCheckBBLowerTrigger ==
    /\ pc = "idle"
    /\ \E i \in 0..MaxLen, sd \in StdDevs, d \in Range(distancePercents) :
          /\ call' = [op |-> "checkBBLowerTrigger", currentIndex |-> i,
                      period |-> BBPeriod, stdDev |-> sd, distancePercent |-> d]
          /\ ret' = checkBBLowerTrigger(prices, i, BBPeriod, sd, d)
    /\ pc' = "done"
    /\ UNCHANGED <<prices, alarmList, blob, watchlist, semaphore, tasks, stockDB, userDB, batch>>

CallCheckBBUpperTrigger ==
    /\ pc = "idle"
    /\ \E i \in 0..MaxLen, sd \in StdDevs, d \in Range(distancePercents) :
          /\ call' = [op |-> "checkBBUpperTrigger", currentIndex |-> i,
                      period |-> BBPeriod, stdDev |-> sd, distancePercent |-> d]
          /\ ret' = checkBBUpperTrigger(prices, i, BBPeriod, sd, d)
    /\ pc' = "done"
    /\ UNCHANGED <<prices, alarmList, blob, watchlist, semaphore, tasks, stockDB, userDB, batch>>

\* UpdateSingleStockIndicators for one symbol, from the series of its blob to
\* the response; the response is kept with the store the run leaves
UpdateSingleStockIndicators ==
    /\ pc = "idle"
    /\ \E symbol \in StoreSymbols, missingRead \in MissingReads :
          /\ call' = [op |-> "UpdateSingleStockIndicators", symbol |-> symbol,
                      stockDB |-> stockDB]
          /\ ret' = handleUpdateSingleStockIndicators(prices, stockDB, symbol,
                                                      missingRead)
    /\ stockDB' = ret'.stockDB
    /\ pc' = "done"
    /\ UNCHANGED <<prices, alarmList, blob, watchlist, semaphore, tasks, batch, userDB>>

\* the marker loop's call for one point of the loaded series
CallCheckAlarmCondition ==
    /\ pc = "idle"
    /\ \E a \in ViewerAlarms, fullDataIndex \in 0..(Len(prices) - 1) :
          /\ call' = [op |-> "checkAlarmCondition", type |-> a[1], alarm |-> a[2],
                      fullDataIndex |-> fullDataIndex]
          /\ ret' = checkAlarmCondition(a[1], a[2], PriceAt(prices, fullDataIndex),
                                        fullDataIndex, prices, RSIPeriod)
    /\ pc' = "done"
    /\ UNCHANGED <<prices, alarmList, blob, watchlist, semaphore, tasks, stockDB, userDB, batch>>

\* the viewer's RSI of the day at fullIndex: calculateRSI of the prefix
CallStockViewerCalculateRSI ==
    /\ pc = "idle"
    /\ \E fullIndex \in 0..(Len(prices) - 1) :
          /\ call' = [op |-> "StockViewer.calculateRSI", fullIndex |-> fullIndex,
                      period |-> RSIPeriod]
          /\ ret' = StockViewer_calculateRSI(slice(prices, 0, fullIndex + 1),
                                             RSIPeriod)
    /\ pc' = "done"
    /\ UNCHANGED <<prices, alarmList, blob, watchlist, semaphore, tasks, stockDB, userDB, batch>>

\* one request to CheckUserAlerts, from the query to the response
CallCheckUserAlerts ==
    /\ pc = "idle"
    /\ \E req \in CheckRequests, today \in {CheckDay - 1, CheckDay} :
          LET done == CheckUserAlerts(req, today, userDB, stockDB)
          IN  /\ req.date # NULL => today = CheckDay
              /\ call' = [op |-> "CheckUserAlerts", req |-> req, today |-> today,
                          userDB |-> userDB, stockDB |-> stockDB]
              /\ ret' = done.res
              /\ userDB' = done.userDB
              /\ stockDB' = done.stockDB
    /\ pc' = "done"
    /\ UNCHANGED <<prices, alarmList, blob, watchlist, semaphore, tasks, batch>>

\* await semaphore.WaitAsync(): the task goes on when a permit is left, and
\* sends its request
TaskWaitAsync ==
    /\ pc = "idle"
    /\ \E k \in DOMAIN tasks :
          /\ tasks[k].pc = "WaitAsync"
          /\ semaphore > 0
          /\ semaphore' = semaphore - 1
          /\ tasks' = [tasks EXCEPT ![k].pc = "CallUpdateApiAsync"]
    /\ UNCHANGED <<prices, alarmList, blob, watchlist, batch, stockDB, userDB, pc,
                   call, ret>>

\* CallUpdateApiAsync returns true or false; the result is recorded and the
\* task waits its two seconds
TaskCallReturns ==
    /\ pc = "idle"
    /\ \E k \in DOMAIN tasks, success \in BOOLEAN :
          /\ tasks[k].pc = "CallUpdateApiAsync"
          /\ tasks' = [tasks EXCEPT ![k] =
                          [pc |-> "Delay",
                           result |-> [Success |-> success, Error |-> NULL]]]
    /\ UNCHANGED <<prices, alarmList, blob, watchlist, batch, stockDB, userDB,
                   semaphore, pc, call, ret>>

\* an exception in the try block (the write to the shared Dictionary of a
\* task running beside another, a cancelled delay): the catch block records
\* the failure
TaskThrows ==
    /\ pc = "idle"
    /\ \E k \in DOMAIN tasks :
          /\ tasks[k].pc \in {"CallUpdateApiAsync", "Delay"}
          /\ tasks' = [tasks EXCEPT ![k] =
                          [pc |-> "catch",
                           result |-> [Success |-> FALSE,
                                       Error |-> [message |-> TRUE]]]]
    /\ UNCHANGED <<prices, alarmList, blob, watchlist, batch, stockDB, userDB,
                   semaphore, pc, call, ret>>

\* the finally block of the task
TaskFinally ==
    /\ pc = "idle"
    /\ \E k \in DOMAIN tasks :
          /\ tasks[k].pc \in {"Delay", "catch"}
          /\ semaphore' = Release(semaphore, tasks[k].pc)
          /\ tasks' = [tasks EXCEPT ![k].pc = "finished"]
    /\ UNCHANGED <<prices, alarmList, blob, watchlist, batch, stockDB, userDB, pc,
                   call, ret>>

\* await Task.WhenAll(updateTasks); return results;
TaskWhenAll ==
    /\ pc = "idle"
    /\ \A k \in DOMAIN tasks : tasks[k].pc = "finished"
    /\ call' = [op |-> "UpdateStocksAsync"]
    /\ ret' = [k \in DOMAIN tasks |-> tasks[k].result]
    /\ pc' = "done"
    /\ UNCHANGED <<prices, alarmList, blob, watchlist, batch, stockDB, userDB,
                   semaphore, tasks>>

\* UpdateSingleStockIndicators on a loaded series: the catalogue is built and
\* upserted, its dates serialised
StoreCatalogue ==
    /\ pc = "idle"
    /\ Len(prices) >= MinDataPoints
    /\ alarmList' = storedAlarmList(calculateAlarmList(prices, <<>>))
    /\ call' = [op |-> "storeCatalogue"]
    /\ ret' = NULL
    /\ pc' = "stored"
    /\ UNCHANGED <<prices, blob, watchlist, semaphore, tasks, stockDB, userDB, batch>>

\* CheckUserAlerts asked about the UTC day of the last point of the series
MatchLatestDay ==
    /\ pc = "stored"
    /\ \E names \in LatestDayOptions(alarmList) :
         LET targetDate == formatDateUTC(PriceAt(prices, Len(prices) - 1).date)
         IN  /\ call' = [op |-> "matchLatestDay", alertOptions |-> names,
                         targetDate |-> targetDate]
             /\ ret' = checkIfAllAlarmsTriggeredOnDate(names, alarmList, targetDate)
    /\ pc' = "done"
    /\ UNCHANGED <<prices, alarmList, blob, watchlist, semaphore, tasks, stockDB,
                   userDB, batch>>

\* the invocation awaits blobClient.exists() and getLastDateFromBlob (the
\* container is created with the blob in it)
YahooReadLastDate(i) ==
    /\ tasks[i].pc = "start"
    /\ tasks' = [tasks EXCEPT ![i].pc = "fetch",
                              ![i].lastDataDate = getLastDateFromBlob(blob),
                              ![i].isNewFile = (getLastDateFromBlob(blob) = NULL)]
    /\ UNCHANGED <<prices, alarmList, blob, watchlist, batch, stockDB, userDB,
                   semaphore, pc, call, ret>>

\* the invocation awaits fetchStockDataFromYahoo; no rows ends it with
\* 'No new data available'
YahooFetch(i) ==
    /\ tasks[i].pc = "fetch"
    /\ LET stockData == fetchStockDataFromYahoo(prices, tasks[i].lastDataDate)
       IN  tasks' = [tasks EXCEPT ![i].stockData = stockData,
                                  ![i].pc = IF stockData = <<>> THEN "done"
                                            ELSE IF tasks[i].isNewFile THEN "upload"
                                            ELSE "download"]
    /\ UNCHANGED <<prices, alarmList, blob, watchlist, batch, stockDB, userDB,
                   semaphore, pc, call, ret>>

\* appendCsvToBlob awaits blobClient.download()
YahooDownload(i) ==
    /\ tasks[i].pc = "download"
    /\ tasks' = [tasks EXCEPT ![i].existingContent = blob, ![i].pc = "upload"]
    /\ UNCHANGED <<prices, alarmList, blob, watchlist, batch, stockDB, userDB,
                   semaphore, pc, call, ret>>

\* blockBlobClient.upload: of the fetched rows for a new file, of the
\* downloaded content with the rows appended otherwise
YahooUpload(i) ==
    /\ tasks[i].pc = "upload"
    /\ blob' = IF tasks[i].isNewFile THEN tasks[i].stockData
               ELSE appendedContent(tasks[i].existingContent, tasks[i].stockData)
    /\ tasks' = [tasks EXCEPT ![i].pc = "done"]
    /\ UNCHANGED <<prices, alarmList, watchlist, batch, stockDB, userDB,
                   semaphore, pc, call, ret>>

\* the provider gains a trading day while invocations are under way
NewTradingDay ==
    /\ Len(prices) < MaxDays
    /\ prices' = Append(prices, [day |-> prices[Len(prices)].day + 1])
    /\ UNCHANGED <<alarmList, blob, watchlist, batch, stockDB, userDB,
                   semaphore, tasks, pc, call, ret>>

\* a trigger recorded on the row of a CSV file by a host at an offset from
\* UTC, stored, and formatted by the matcher: new Date(y, m - 1, d) is the
\* host's local midnight, the upsert serialises it with toISOString, and
\* formatDateUTC cuts the stored string at its 'T'
RecordTriggerOnRow ==
    /\ pc = "idle"
    /\ \E tz \in AllHostTzs :
         /\ call' = [op |-> "recordTriggerOnRow", tz |-> tz, date |-> blob[2].date]
         /\ ret' = formatDateUTC(toISOString(LocalMidnight(blob[2].date.day, tz)))
    /\ pc' = "done"
    /\ UNCHANGED <<prices, alarmList, blob, watchlist, semaphore, tasks, stockDB,
                   userDB, batch>>

\* DailyWatchlistUpdater up to the loop: the watchlist is read (the read can
\* throw, and an empty watchlist ends the run)
DailyWatchlistUpdaterStart ==
    /\ pc = "idle"
    /\ call' = [op |-> "DailyWatchlistUpdater"]
    /\ \/ /\ ret' = [status |-> 500]
          /\ pc' = "done"
       \/ /\ watchlist = <<>>
          /\ ret' = [status |-> 200, message |-> "No stocks found in watchlist",
                     successCount |-> 0, failCount |-> 0]
          /\ pc' = "done"
       \/ /\ watchlist # <<>>
          /\ ret' = NULL
          /\ pc' = "loop"
    /\ batch' = NoBatch
    /\ UNCHANGED <<prices, alarmList, blob, watchlist, semaphore, tasks, stockDB, userDB>>

\* one turn of the loop: the symbol's update is requested and answers 200,
\* another success status, or the request throws (error status, timeout)
DailyWatchlistUpdaterStock ==
    /\ pc = "loop"
    /\ batch.i < Len(watchlist)
    /\ LET stock == PriceAt(watchlist, batch.i)
       IN  \/ batch' = onSuccess(batch, stock)
           \/ batch' = onOtherStatus(batch, stock)
           \/ batch' = onError(batch, stock, watchlist)
    /\ UNCHANGED <<prices, alarmList, blob, watchlist, semaphore, tasks, stockDB, userDB, pc, call, ret>>

\* after the loop: the response
DailyWatchlistUpdaterEnd ==
    /\ pc = "loop"
    /\ batch.i >= Len(watchlist)
    /\ ret' = [status |-> 200, message |-> "Watchlist update completed",
               totalStocks |-> Len(watchlist),
               successCount |-> batch.successCount,
               failCount |-> batch.failCount,
               results |-> batch.results]
    /\ pc' = "done"
    /\ UNCHANGED <<prices, alarmList, blob, watchlist, semaphore, tasks, stockDB, userDB, batch, call>>

----------------------------------------------------------------------------
(* Specifications *)

\* the N-week low detector applied to every enumerated series
InitNWeek ==
    /\ prices \in AllSeries
    /\ alarmList = <<>>
    /\ blob = <<>>
    /\ watchlist = <<>>
    /\ batch = NoBatch
    /\ stockDB = NoStockDB
    /\ userDB = NULL
    /\ semaphore = 0
    /\ tasks = <<>>
    /\ pc = "idle"
    /\ call = Idle
    /\ ret = NULL

NextNWeek == CallCheckNWeekLowTrigger \/ CallFindMostRecentTriggerDate

SpecNWeek == InitNWeek /\ [][NextNWeek]_vars

\* the matcher applied to every enumerated catalogue
InitMatcher ==
    /\ prices = <<>>
    /\ alarmList \in Catalogues
    /\ blob = <<>>
    /\ watchlist = <<>>
    /\ batch = NoBatch
    /\ stockDB = NoStockDB
    /\ userDB = NULL
    /\ semaphore = 0
    /\ tasks = <<>>
    /\ pc = "idle"
    /\ call = Idle
    /\ ret = NULL

NextMatcher == CallCheckIfAllAlarmsTriggeredOnDate

SpecMatcher == InitMatcher /\ [][NextMatcher]_vars

\* the moving-average cross detector applied to every enumerated series
InitMA ==
    /\ prices \in AllSeries
    /\ alarmList = <<>>
    /\ blob = <<>>
    /\ watchlist = <<>>
    /\ batch = NoBatch
    /\ stockDB = NoStockDB
    /\ userDB = NULL
    /\ semaphore = 0
    /\ tasks = <<>>
    /\ pc = "idle"
    /\ call = Idle
    /\ ret = NULL

NextMA ==
    \/ CallCheckMACrossMA
    \/ CallFindMostRecentMACrossMA
    \/ CallCalculateAllMACrossTriggers

SpecMA == InitMA /\ [][NextMA]_vars

\* calculateRSI applied to every enumerated series
InitRSI ==
    /\ prices \in AllSeries
    /\ alarmList = <<>>
    /\ blob = <<>>
    /\ watchlist = <<>>
    /\ batch = NoBatch
    /\ stockDB = NoStockDB
    /\ userDB = NULL
    /\ semaphore = 0
    /\ tasks = <<>>
    /\ pc = "idle"
    /\ call = Idle
    /\ ret = <<>>

NextRSI == CallCalculateRSI

SpecRSI == InitRSI /\ [][NextRSI]_vars

\* the builder run again and again on a series that grows
InitBuilder ==
    /\ prices \in BuilderSeries
    /\ alarmList = <<>>
    /\ blob = <<>>
    /\ watchlist = <<>>
    /\ batch = NoBatch
    /\ stockDB = NoStockDB
    /\ userDB = NULL
    /\ semaphore = 0
    /\ tasks = <<>>
    /\ pc = "idle"
    /\ call = Idle
    /\ ret = <<>>

NextBuilder == CallCalculateAlarmList \/ AppendPoint

SpecBuilder == InitBuilder /\ [][NextBuilder]_vars

\* getStockDataFromBlob applied to every enumerated CSV file
InitBlob ==
    /\ prices = <<>>
    /\ alarmList = <<>>
    /\ blob \in CsvContents
    /\ watchlist = <<>>
    /\ batch = NoBatch
    /\ stockDB = NoStockDB
    /\ userDB = NULL
    /\ semaphore = 0
    /\ tasks = <<>>
    /\ pc = "idle"
    /\ call = Idle
    /\ ret = <<>>

NextBlob == CallGetStockDataFromBlob

SpecBlob == InitBlob /\ [][NextBlob]_vars

\* DailyWatchlistUpdater run on every enumerated watchlist
InitBatch ==
    /\ prices = <<>>
    /\ alarmList = <<>>
    /\ blob = <<>>
    /\ watchlist \in Watchlists
    /\ batch = NoBatch
    /\ stockDB = NoStockDB
    /\ userDB = NULL
    /\ semaphore = 0
    /\ tasks = <<>>
    /\ pc = "idle"
    /\ call = Idle
    /\ ret = NULL

NextBatch ==
    \/ DailyWatchlistUpdaterStart
    \/ DailyWatchlistUpdaterStock
    \/ DailyWatchlistUpdaterEnd

SpecBatch == InitBatch /\ [][NextBatch]_vars

\* the detectors of every family applied to every enumerated series, short
\* ones included
InitInsufficient ==
    /\ prices \in AllSeries
    /\ alarmList = <<>>
    /\ blob = <<>>
    /\ watchlist = <<>>
    /\ batch = NoBatch
    /\ stockDB = NoStockDB
    /\ userDB = NULL
    /\ semaphore = 0
    /\ tasks = <<>>
    /\ pc = "idle"
    /\ call = Idle
    /\ ret = NULL

NextInsufficient ==
    \/ CallCheckNWeekLowTrigger
    \/ CallCheckNWeekHighTrigger
    \/ CallCalculateAllNWeekLowTriggers
    \/ CallCalculateAllNWeekHighTriggers
    \/ CallCalculateAllMACrossTriggers
    \/ CallCalculateAllDailyChangeTriggers
    \/ CallCalculateAllRSITriggers
    \/ CallCalculateAllBBTriggers

SpecInsufficient == InitInsufficient /\ [][NextInsufficient]_vars

\* the N-week high detector applied to every enumerated series
InitNWeekHigh ==
    /\ prices \in HighSeries
    /\ alarmList = <<>>
    /\ blob = <<>>
    /\ watchlist = <<>>
    /\ batch = NoBatch
    /\ stockDB = NoStockDB
    /\ userDB = NULL
    /\ semaphore = 0
    /\ tasks = <<>>
    /\ pc = "idle"
    /\ call = Idle
    /\ ret = NULL

NextNWeekHigh == CallCheckNWeekHighTrigger \/ CallFindMostRecentTriggerDateHigh

SpecNWeekHigh == InitNWeekHigh /\ [][NextNWeekHigh]_vars

\* the daily-change detector applied to every enumerated series
InitDaily ==
    /\ prices \in DailySeries
    /\ alarmList = <<>>
    /\ blob = <<>>
    /\ watchlist = <<>>
    /\ batch = NoBatch
    /\ stockDB = NoStockDB
    /\ userDB = NULL
    /\ semaphore = 0
    /\ tasks = <<>>
    /\ pc = "idle"
    /\ call = Idle
    /\ ret = NULL

NextDaily ==
    \/ CallCheckDailyLossTrigger
    \/ CallCheckDailyGainTrigger
    \/ CallCalculateAllDailyChangeTriggers

SpecDaily == InitDaily /\ [][NextDaily]_vars

\* the Bollinger detector applied to every enumerated series
InitBB ==
    /\ prices \in BBSeries
    /\ alarmList = <<>>
    /\ blob = <<>>
    /\ watchlist = <<>>
    /\ batch = NoBatch
    /\ stockDB = NoStockDB
    /\ userDB = NULL
    /\ semaphore = 0
    /\ tasks = <<>>
    /\ pc = "idle"
    /\ call = Idle
    /\ ret = NULL

NextBB == CallCheckBBLowerTrigger \/ CallCheckBBUpperTrigger

SpecBB == InitBB /\ [][NextBB]_vars

\* UpdateSingleStockIndicators on every enumerated store and series
InitUpdate ==
    /\ prices \in UpdateSeries
    /\ alarmList = <<>>
    /\ blob = <<>>
    /\ watchlist = <<>>
    /\ batch = NoBatch
    /\ stockDB \in StockDBs
    /\ userDB = NULL
    /\ semaphore = 0
    /\ tasks = <<>>
    /\ pc = "idle"
    /\ call = Idle
    /\ ret = NULL

NextUpdate == UpdateSingleStockIndicators

SpecUpdate == InitUpdate /\ [][NextUpdate]_vars

\* the viewer's marker conditions on every enumerated series
InitViewer ==
    /\ prices \in AllSeries
    /\ alarmList = <<>>
    /\ blob = <<>>
    /\ watchlist = <<>>
    /\ batch = NoBatch
    /\ stockDB = NoStockDB
    /\ userDB = NULL
    /\ semaphore = 0
    /\ tasks = <<>>
    /\ pc = "idle"
    /\ call = Idle
    /\ ret = NULL

NextViewer == CallCheckAlarmCondition \/ CallStockViewerCalculateRSI

SpecViewer == InitViewer /\ [][NextViewer]_vars

\* CheckUserAlerts on every enumerated pair of stores and every request
InitAlerts ==
    /\ prices = <<>>
    /\ alarmList = <<>>
    /\ blob = <<>>
    /\ watchlist = <<>>
    /\ batch = NoBatch
    /\ stockDB \in AlertStockDBs
    /\ userDB \in UserDBs
    /\ semaphore = 0
    /\ tasks = <<>>
    /\ pc = "idle"
    /\ call = Idle
    /\ ret = NULL

NextAlerts == CallCheckUserAlerts

SpecAlerts == InitAlerts /\ [][NextAlerts]_vars

\* UpdateStocksAsync on 0..MaxTasks active stocks, the tasks interleaved
InitSemaphore ==
    /\ prices = <<>>
    /\ alarmList = <<>>
    /\ blob = <<>>
    /\ watchlist = <<>>
    /\ batch = NoBatch
    /\ stockDB = NoStockDB
    /\ userDB = NULL
    /\ semaphore = SemaphorePermits
    /\ tasks \in {[k \in 1..n |-> NewTask] : n \in 0..MaxTasks}
    /\ pc = "idle"
    /\ call = Idle
    /\ ret = NULL

NextSemaphore ==
    TaskWaitAsync \/ TaskCallReturns \/ TaskThrows \/ TaskFinally \/ TaskWhenAll

SpecSemaphore == InitSemaphore /\ [][NextSemaphore]_vars

\* a series is loaded, its catalogue stored, and the matcher asked about the
\* day of its last point
InitEndToEnd ==
    /\ prices \in EndToEndSeries
    /\ alarmList = <<>>
    /\ blob = <<>>
    /\ watchlist = <<>>
    /\ batch = NoBatch
    /\ stockDB = NoStockDB
    /\ userDB = NULL
    /\ semaphore = 0
    /\ tasks = <<>>
    /\ pc = "idle"
    /\ call = Idle
    /\ ret = NULL

NextEndToEnd == StoreCatalogue \/ MatchLatestDay

SpecEndToEnd == InitEndToEnd /\ [][NextEndToEnd]_vars

\* two invocations of UpdateStockFromYahoo for one symbol, interleaved at
\* their awaits; the CSV holds a prefix of the provider's history
InitYahoo ==
    /\ prices \in Histories
    /\ blob \in {SubSeq(prices, 1, n) : n \in 0..Len(prices)}
    /\ alarmList = <<>>
    /\ watchlist = <<>>
    /\ batch = NoBatch
    /\ stockDB = NoStockDB
    /\ userDB = NULL
    /\ semaphore = 0
    /\ tasks = <<NewInvocation, NewInvocation>>
    /\ pc = "idle"
    /\ call = Idle
    /\ ret = NULL

NextYahoo ==
    \/ \E i \in 1..2 : YahooReadLastDate(i)
    \/ \E i \in 1..2 : YahooFetch(i)
    \/ \E i \in 1..2 : YahooDownload(i)
    \/ \E i \in 1..2 : YahooUpload(i)
    \/ NewTradingDay

SpecYahoo == InitYahoo /\ [][NextYahoo]_vars

\* the builder run on series whose closes fall inside the tolerance bands
InitTolerance ==
    /\ prices \in ToleranceSeries
    /\ alarmList = <<>>
    /\ blob = <<>>
    /\ watchlist = <<>>
    /\ batch = NoBatch
    /\ stockDB = NoStockDB
    /\ userDB = NULL
    /\ semaphore = 0
    /\ tasks = <<>>
    /\ pc = "idle"
    /\ call = Idle
    /\ ret = <<>>

NextTolerance == CallCalculateAlarmList

SpecTolerance == InitTolerance /\ [][NextTolerance]_vars

\* the date of a CSV row taken from the file to the matcher's calendar day
InitRoundTrip ==
    /\ prices = <<>>
    /\ alarmList = <<>>
    /\ blob \in OneRowFiles
    /\ watchlist = <<>>
    /\ batch = NoBatch
    /\ stockDB = NoStockDB
    /\ userDB = NULL
    /\ semaphore = 0
    /\ tasks = <<>>
    /\ pc = "idle"
    /\ call = Idle
    /\ ret = NULL

NextRoundTrip == RecordTriggerOnRow

SpecRoundTrip == InitRoundTrip /\ [][NextRoundTrip]_vars

----------------------------------------------------------------------------
(* Claims *)

Called(op) == pc = "done" /\ call.op = op

\* C1: checkIfAllAlarmsTriggeredOnDate returns true iff every named alarm is
\* in the alarmList with a non-null previousTriggeredDate whose UTC calendar
\* day is the target date (a missing name, a null date or one alarm dated the
\* day before makes it false).
C1_MatcherTrueIffAllOnTargetDay ==
    Called("checkIfAllAlarmsTriggeredOnDate") =>
        (ret = TRUE <=>
            \A k \in DOMAIN call.alertOptions :
                \E a \in Range(alarmList) :
                    /\ a.alarmName = call.alertOptions[k]
                    /\ a.previousTriggeredDate # NULL
                    /\ a.previousTriggeredDate.iso[1] = call.targetDate.ymd)

\* two different alarms, both dated the target day: the matcher said true
C1_Witness ==
    /\ Called("checkIfAllAlarmsTriggeredOnDate")
    /\ Len(call.alertOptions) = 2
    /\ call.alertOptions[1] # call.alertOptions[2]
    /\ Len(alarmList) = 3
    /\ \E a \in Range(alarmList) :
          a.previousTriggeredDate = [iso |-> <<CheckDay - 1, 7>>]
    /\ ret = TRUE

\* the indices at which the N-week low condition holds
LowTriggerIndices(prices_, weeks, fluctuation) ==
    {i \in (weeks * DaysPerWeek)..(Len(prices_) - 1) :
        checkNWeekLowTrigger(prices_, i, weeks, fluctuation).isTriggered}

SetMax(S) == CHOOSE m \in S : \A x \in S : x <= m

\* C2: findMostRecentTriggerDate returns the date of the largest index in
\* weeks*5 .. length-1 at which checkNWeekLowTrigger is triggered, and null
\* when there is none.
C2_MostRecentIsLargestTriggerIndex ==
    Called("findMostRecentTriggerDate") =>
        LET T == LowTriggerIndices(prices, call.weeks, call.fluctuation)
        IN  IF T = {} THEN ret = NULL
            ELSE ret = PriceAt(prices, SetMax(T)).date

\* the condition holds at exactly one index k, which is not the last one,
\* and the scan returned the date of point k
C2_Witness ==
    /\ Called("findMostRecentTriggerDate")
    /\ LET T == LowTriggerIndices(prices, call.weeks, call.fluctuation)
       IN  /\ Cardinality(T) = 1
           /\ SetMax(T) < Len(prices) - 1
           /\ ret = PriceAt(prices, SetMax(T)).date

\* C4: for i >= weeks*5, checkNWeekLowTrigger is triggered iff
\* close[i] <= windowLow + (windowHigh - windowLow) * fluctuation / 100 over
\* the weeks*5+1 points i-weeks*5 .. i (the window slides with i).
C4_LowTriggerIffCloseWithinSlidingWindowThreshold ==
    (/\ Called("checkNWeekLowTrigger")
     /\ call.currentIndex >= call.weeks * DaysPerWeek
     /\ call.currentIndex < Len(prices)) =>
        LET i == call.currentIndex
            W == {PriceAt(prices, k).close : k \in (i - call.weeks * DaysPerWeek)..i}
            lo == CHOOSE m \in W : \A x \in W : m <= x
            hi == CHOOSE m \in W : \A x \in W : m >= x
        IN  /\ ret.insufficient = FALSE
            /\ ret.isTriggered <=>
                   100 * PriceAt(prices, i).close
                       <= 100 * lo + (hi - lo) * call.fluctuation

\* a trigger inside the series (not at its end) that rests on the tolerance:
\* the close is above the window's low
C4_Witness ==
    /\ Called("checkNWeekLowTrigger")
    /\ call.currentIndex < Len(prices) - 1
    /\ ret.isTriggered
    /\ PriceAt(prices, call.currentIndex).close > ret.windowLow
    /\ PriceAt(prices, Len(prices) - 1).close < ret.windowLow

\* the sum of the closes of the period points that end at index i
WindowSum(prices_, i, period) ==
    LET f[k \in 0..period] ==
            IF k = 0 THEN 0 ELSE f[k - 1] + PriceAt(prices_, i - k + 1).close
    IN  f[period]

\* sma(p1, i) > sma(p2, i), on the sums
SmaGT(prices_, i, p1, p2) ==
    WindowSum(prices_, i, p1) * p2 > WindowSum(prices_, i, p2) * p1

\* a golden cross at index i
GoldenAt(prices_, i, p1, p2) ==
    /\ i >= p2
    /\ ~SmaGT(prices_, i - 1, p1, p2)
    /\ SmaGT(prices_, i, p1, p2)

\* a death cross at index i
DeathAt(prices_, i, p1, p2) ==
    /\ i >= p2
    /\ ~SmaGT(prices_, i - 1, p2, p1)
    /\ SmaGT(prices_, i, p2, p1)

\* the date of the latest index of the series at which a cross of the
\* direction happens, or null
LatestCrossDate(prices_, p1, p2, direction) ==
    LET T == {i \in 0..(Len(prices_) - 1) :
                 IF direction = "golden" THEN GoldenAt(prices_, i, p1, p2)
                 ELSE DeathAt(prices_, i, p1, p2)}
    IN  IF T = {} THEN NULL ELSE PriceAt(prices_, SetMax(T)).date

\* C5: for p1 < p2 and every index i of the series, checkMACrossMA reports a
\* golden cross iff i >= p2, sma(p1,i-1) <= sma(p2,i-1) and sma(p1,i) >
\* sma(p2,i), and a death cross iff the mirror holds; the date
\* findMostRecentMACrossMA returns, and the cross-up / cross-down date of the
\* catalogue, is the date of the latest such index, or null without one.
C5_CrossIffAveragesSwapAndLatestDate ==
    /\ Called("checkMACrossMA") =>
          LET i == call.currentIndex
              p1 == call.shortPeriod
              p2 == call.longPeriod
          IN  /\ ret.direction = "golden" <=> GoldenAt(prices, i, p1, p2)
              /\ ret.direction = "death" <=> DeathAt(prices, i, p1, p2)
              /\ ret.crossed <=> ret.direction # "null"
    /\ Called("findMostRecentMACrossMA") =>
          ret = LatestCrossDate(prices, call.shortPeriod, call.longPeriod,
                                call.direction)
    /\ Called("calculateAllMACrossTriggers") =>
          \A k \in DOMAIN ret :
              /\ ret[k].direction = "cross-up" =>
                    ret[k].previousTriggeredDate =
                        LatestCrossDate(prices, ret[k].ma1Period,
                                        ret[k].ma2Period, "golden")
              /\ ret[k].direction = "cross-down" =>
                    ret[k].previousTriggeredDate =
                        LatestCrossDate(prices, ret[k].ma1Period,
                                        ret[k].ma2Period, "death")

\* a golden cross that starts from equal averages the day before, found by
\* the catalogue at an index that is not the last one
C5_Witness ==
    /\ Called("calculateAllMACrossTriggers")
    /\ \E k \in DOMAIN ret :
          /\ ret[k].direction = "cross-up"
          /\ ret[k].previousTriggeredDate # NULL
          /\ ret[k].previousTriggeredDate # PriceAt(prices, Len(prices) - 1).date
          /\ \E i \in 1..(Len(prices) - 2) :
                /\ PriceAt(prices, i).date = ret[k].previousTriggeredDate
                /\ WindowSum(prices, i - 1, ret[k].ma1Period) * ret[k].ma2Period
                      = WindowSum(prices, i - 1, ret[k].ma2Period) * ret[k].ma1Period

\* the gain (loss) of the step into index i
GainAt(prices_, i) ==
    LET change == PriceAt(prices_, i).close - PriceAt(prices_, i - 1).close
    IN  IF change > 0 THEN change ELSE 0

LossAt(prices_, i) ==
    LET change == PriceAt(prices_, i).close - PriceAt(prices_, i - 1).close
    IN  IF change < 0 THEN 0 - change ELSE 0

\* Wilder's averages at index i >= period as numerator over period^(i-period+1):
\* seeded with the sum of the first period steps, then
\* avg(i) = (avg(i-1) * (period-1) + current(i)) / period
WilderNum(prices_, i, period, gain) ==
    LET f[k \in period..i] ==
            IF k = period
            THEN LET g[j \in 0..period] ==
                         IF j = 0 THEN 0
                         ELSE g[j - 1] + (IF gain THEN GainAt(prices_, j)
                                          ELSE LossAt(prices_, j))
                 IN  g[period]
            ELSE f[k - 1] * (period - 1)
                 + (IF gain THEN GainAt(prices_, k) ELSE LossAt(prices_, k))
                   * period ^ (k - period)
    IN  f[i]

\* C6: calculateRSI is null at every index below period, and everywhere when
\* the series has fewer than period+1 points; from index period on it is
\* 100 - 100/(1 + avgGain/avgLoss), the averages seeded from the first period
\* steps and then smoothed by avg = (avg*(period-1) + current)/period, and
\* exactly 100 when avgLoss is 0: a series that rises at every step has 100
\* at every defined index.
C6_RSIWilderSmoothing ==
    Called("calculateRSI") =>
        LET period == call.period
        IN  /\ Len(ret) = Len(prices)
            /\ \A i \in 0..(Len(prices) - 1) :
                  IF i < period \/ Len(prices) < period + 1
                  THEN RSIAt(ret, i) = NULL
                  ELSE LET G == WilderNum(prices, i, period, TRUE)
                           L == WilderNum(prices, i, period, FALSE)
                           v == RSIAt(ret, i)
                       IN  /\ v # NULL
                           \* 100 - 100/(1 + G/L) = 100*G/(G+L)
                           /\ IF L = 0 THEN v.n = 100 * v.d
                              ELSE v.n * (G + L) = 100 * G * v.d
            /\ (\A i \in 1..(Len(prices) - 1) : GainAt(prices, i) > 0) =>
                  \A i \in period..(Len(prices) - 1) :
                      RSIAt(ret, i).n = 100 * RSIAt(ret, i).d

\* a series with a smoothed value strictly between 0 and 100 two steps after
\* the seed, whose last step is a loss
C6_Witness ==
    /\ Called("calculateRSI")
    /\ Len(prices) >= call.period + 3
    /\ LossAt(prices, Len(prices) - 1) > 0
    /\ GainAt(prices, 1) > 0
    /\ LET v == RSIAt(ret, Len(prices) - 1)
       IN  v # NULL /\ v.n > 0 /\ v.n < 100 * v.d

\* the names the templates give for the parameter grids
ExpectedNames ==
    {ToString(w) \o "WeekLow" \o ToString(f) \o "Fluctuation" :
        w \in Range(weekPeriods), f \in Range(fluctuations)}
    \cup {ToString(w) \o "WeekHigh" \o ToString(f) \o "Fluctuation" :
        w \in Range(weekPeriods), f \in Range(fluctuations)}
    \cup {"MA" \o ToString(maPeriods[ij[1]]) \o word \o "MA"
              \o ToString(maPeriods[ij[2]]) :
            word \in {"Above", "Below", "CrossUp", "CrossDown"},
            ij \in {x \in (DOMAIN maPeriods) \X (DOMAIN maPeriods) : x[1] < x[2]}}
    \cup {"DailyLoss" \o ToString(t) \o "Percent" : t \in Range(dailyThresholds)}
    \cup {"DailyGain" \o ToString(t) \o "Percent" : t \in Range(dailyThresholds)}
    \cup {"RSIOversold" \o ToString(t) : t \in Range(oversoldThresholds)}
    \cup {"RSIOverbought" \o ToString(t) : t \in Range(overboughtThresholds)}
    \cup {"BBLower" \o ToString(BBPeriod) \o "Period" \o ToString(BBStdDev)
              \o "StdDev" \o ToString(d) \o "Pct" : d \in Range(distancePercents)}
    \cup {"BBUpper" \o ToString(BBPeriod) \o "Period" \o ToString(BBStdDev)
              \o "StdDev" \o ToString(d) \o "Pct" : d \in Range(distancePercents)}

\* the number of parameter combinations of all families
ExpectedCount ==
    2 * Len(weekPeriods) * Len(fluctuations)
    + 4 * ((Len(maPeriods) * (Len(maPeriods) - 1)) \div 2)
    + 2 * Len(dailyThresholds)
    + Len(oversoldThresholds) + Len(overboughtThresholds)
    + 2 * Len(distancePercents)

NamesOf(alarmList_) == {alarmList_[k].alarmName : k \in DOMAIN alarmList_}

\* C3: for a series of any length the list built by calculateAlarmList has
\* one entry for every parameter combination of every family (a combination
\* that cannot be evaluated has a null date, it is not left out).
C3_EveryCombinationHasAnEntry ==
    Called("calculateAlarmList") =>
        /\ Len(ret) = ExpectedCount
        /\ NamesOf(ret) = ExpectedNames

C8_NamesDistinctAndFromTemplates ==
    (Called("calculateAlarmList") /\ Len(prices) >= MinDataPoints) =>
        /\ \A i, j \in DOMAIN ret : i # j => ret[i].alarmName # ret[j].alarmName
        /\ NamesOf(ret) = ExpectedNames
        /\ Len(ret) = ExpectedCount

\* a full catalogue for a series that is not flat, with dated and undated
\* alarms
C8_Witness ==
    /\ Called("calculateAlarmList")
    /\ Len(prices) >= MinDataPoints
    /\ \E i, j \in DOMAIN prices : prices[i].close # prices[j].close
    /\ \E k \in DOMAIN ret : ret[k].previousTriggeredDate # NULL
    /\ \E k \in DOMAIN ret : ret[k].previousTriggeredDate = NULL

\* C9: the series getStockDataFromBlob returns is strictly increasing by
\* date, for any CSV content: no two points carry the same date, also when
\* two rows of the CSV do.
C9_SeriesStrictlyIncreasingByDate ==
    Called("getStockDataFromBlob") =>
        \A i, j \in DOMAIN ret :
            i < j => /\ IsValidDate(ret[i].date)
                     /\ IsValidDate(ret[j].date)
                     /\ ret[i].date.time < ret[j].date.time

\* the rows of the CSV file: its non-blank lines after the header
RowsOf(csvContent) == Tail(nonBlankLines(csvContent))

\* a row with at least 7 columns, a date that parses and a numeric close
WellFormed(row) ==
    /\ row.cols >= 7
    /\ "day" \in DOMAIN row.date
    /\ "num" \in DOMAIN row.close

\* C10: a row with fewer than 7 columns, an unparsable date or a non-numeric
\* close is absent from the series getStockDataFromBlob returns, and every
\* well-formed row is kept with its values: the series has no point with an
\* invalid date or a NaN close.
C10_MalformedRowsDroppedWellFormedKept ==
    Called("getStockDataFromBlob") =>
        LET rows == RowsOf(blob)
        IN  /\ \A k \in DOMAIN ret :
                  IsValidDate(ret[k].date) /\ ret[k].close # NaN
            /\ Len(ret) = Cardinality({k \in DOMAIN rows : WellFormed(rows[k])})
            /\ \A k \in DOMAIN rows :
                  WellFormed(rows[k]) =>
                      \E m \in DOMAIN ret :
                          /\ ret[m].date = parseDate(rows[k].date)
                          /\ ret[m].close = rows[k].close.num

\* C11: in a batch run a failure on one symbol never keeps a later symbol
\* from being processed: the symbols are requested once each, in watchlist
\* order, and when the run ends the results hold one entry per symbol and
\* successCount + failCount is the size of the watchlist.
C11_BatchIsolatesSymbolFailures ==
    /\ pc = "loop" =>
          /\ batch.requests = SubSeq(watchlist, 1, batch.i)
          /\ batch.i <= Len(watchlist)
    /\ (pc = "done" /\ call.op = "DailyWatchlistUpdater" /\ ret.status = 200) =>
          /\ ret.successCount + ret.failCount = Len(watchlist)
          /\ watchlist # <<>> =>
                /\ batch.requests = watchlist
                /\ Len(ret.results) = Len(watchlist)
                /\ \A k \in DOMAIN watchlist : ret.results[k].symbol = watchlist[k]
                /\ ret.failCount =
                      Cardinality({k \in DOMAIN ret.results :
                                      ret.results[k].status # "success"})

\* the first symbol's request threw, the second came back with a status other
\* than 200, and the third was still updated
C11_Witness ==
    /\ pc = "done"
    /\ call.op = "DailyWatchlistUpdater"
    /\ ret.status = 200
    /\ Len(watchlist) = 3
    /\ ret.results[1].status = "error"
    /\ ret.results[2].status = "failed"
    /\ ret.results[3].status = "success"
    /\ ret.successCount = 1

\* C12: whenever the series has no index at which a detector's condition can
\* be evaluated (length <= weeks*5 for the N-week low and high, < p2 for the
\* MA position, <= p2 for the MA cross, <= period for the RSI, < period for
\* the Bollinger bands, < 2 for the daily change) the previousTriggeredDate
\* reported for the combination is null; and checkNWeekLowTrigger and
\* checkNWeekHighTrigger never report isTriggered together with insufficient.
C12_NoDateWithoutEvaluableIndex ==
    /\ (Called("checkNWeekLowTrigger") \/ Called("checkNWeekHighTrigger")) =>
          ~(ret.isTriggered /\ ret.insufficient)
    /\ (Called("calculateAllNWeekLowTriggers")
            \/ Called("calculateAllNWeekHighTriggers")) =>
          \A k \in DOMAIN ret :
              Len(prices) <= ret[k].weeks * DaysPerWeek =>
                  ret[k].previousTriggeredDate = NULL
    /\ Called("calculateAllMACrossTriggers") =>
          \A k \in DOMAIN ret :
              /\ (ret[k].direction \in {"above", "below"}
                      /\ Len(prices) < ret[k].ma2Period) =>
                    ret[k].previousTriggeredDate = NULL
              /\ (ret[k].direction \in {"cross-up", "cross-down"}
                      /\ Len(prices) <= ret[k].ma2Period) =>
                    ret[k].previousTriggeredDate = NULL
    /\ Called("calculateAllDailyChangeTriggers") =>
          \A k \in DOMAIN ret :
              Len(prices) < 2 => ret[k].previousTriggeredDate = NULL
    /\ Called("calculateAllRSITriggers") =>
          \A k \in DOMAIN ret :
              Len(prices) <= ret[k].period => ret[k].previousTriggeredDate = NULL
    /\ Called("calculateAllBBTriggers") =>
          \A k \in DOMAIN ret :
              Len(prices) < ret[k].period => ret[k].previousTriggeredDate = NULL

\* a series just as long as the longer window: the N-week high of the longer
\* window has no date, that of the shorter window has one
C12_Witness ==
    /\ Called("calculateAllNWeekHighTriggers")
    /\ \E k \in DOMAIN ret :
          /\ Len(prices) = ret[k].weeks * DaysPerWeek
          /\ ret[k].previousTriggeredDate = NULL
    /\ \E k \in DOMAIN ret : ret[k].previousTriggeredDate # NULL

\* the series with every close negated
Negated(prices_) ==
    [k \in DOMAIN prices_ |-> [prices_[k] EXCEPT !.close = 0 - @]]

\* close[i] >= windowHigh - (windowHigh - windowLow) * fluctuation / 100 over
\* the window i - days .. i, on integers
HighConditionAt(prices_, i, weeks, fluctuation) ==
    LET W == {PriceAt(prices_, k).close : k \in (i - weeks * DaysPerWeek)..i}
        lo == CHOOSE m \in W : \A x \in W : m <= x
        hi == CHOOSE m \in W : \A x \in W : m >= x
    IN  100 * PriceAt(prices_, i).close >= 100 * hi - (hi - lo) * fluctuation

\* C13: for i >= weeks*5, checkNWeekHighTrigger is triggered iff
\* close[i] >= windowHigh - (windowHigh - windowLow) * fluctuation / 100 over
\* the window i-weeks*5 .. i; the N-week high findMostRecentTriggerDate
\* returns the date of the largest such index, or null; and the detector is
\* the mirror of the N-week low detector: it triggers iff the low detector
\* triggers on the series with all closes negated.
C13_HighTriggerMirrorsLow ==
    /\ (/\ Called("checkNWeekHighTrigger")
        /\ call.currentIndex >= call.weeks * DaysPerWeek
        /\ call.currentIndex < Len(prices)) =>
          /\ ret.insufficient = FALSE
          /\ ret.isTriggered <=>
                HighConditionAt(prices, call.currentIndex, call.weeks,
                                call.fluctuation)
    /\ Called("checkNWeekHighTrigger") =>
          (ret.isTriggered <=>
              checkNWeekLowTrigger(Negated(prices), call.currentIndex,
                                   call.weeks, call.fluctuation).isTriggered)
    /\ Called("findMostRecentTriggerDateHigh") =>
          LET T == {i \in (call.weeks * DaysPerWeek)..(Len(prices) - 1) :
                       HighConditionAt(prices, i, call.weeks, call.fluctuation)}
          IN  /\ IF T = {} THEN ret = NULL
                 ELSE ret = PriceAt(prices, SetMax(T)).date
              /\ ret = findMostRecentTriggerDate(Negated(prices), call.weeks,
                                                 call.fluctuation)

\* a trigger inside the series that rests on the tolerance (the close is
\* below the window's high), while the last point does not trigger
C13_Witness ==
    /\ Called("checkNWeekHighTrigger")
    /\ call.currentIndex < Len(prices) - 1
    /\ ret.isTriggered
    /\ PriceAt(prices, call.currentIndex).close < ret.windowHigh
    /\ ~checkNWeekHighTrigger(prices, Len(prices) - 1, call.weeks,
                              call.fluctuation).isTriggered

\* (close[i] - close[i-1]) / close[i-1] * 100 <= -t, on integers
LossAtLeast(prices_, i, t) ==
    (PriceAt(prices_, i).close - PriceAt(prices_, i - 1).close) * 100
        <= 0 - t * PriceAt(prices_, i - 1).close

\* (close[i] - close[i-1]) / close[i-1] * 100 >= t, on integers
GainAtLeast(prices_, i, t) ==
    (PriceAt(prices_, i).close - PriceAt(prices_, i - 1).close) * 100
        >= t * PriceAt(prices_, i - 1).close

\* C14: for i >= 1 and t in 1..5, with pct = (close[i]-close[i-1])/close[i-1]
\* * 100, checkDailyLossTrigger is triggered iff pct <= -t and
\* checkDailyGainTrigger iff pct >= t; index 0 never triggers; the date of
\* DailyLoss{t}Percent / DailyGain{t}Percent is the date of the largest
\* triggering index, or null.
C14_DailyChangeThresholds ==
    /\ (Called("checkDailyLossTrigger") /\ call.currentIndex < Len(prices)) =>
          (ret.isTriggered <=>
              /\ call.currentIndex >= 1
              /\ LossAtLeast(prices, call.currentIndex, call.thresholdPercent))
    /\ (Called("checkDailyGainTrigger") /\ call.currentIndex < Len(prices)) =>
          (ret.isTriggered <=>
              /\ call.currentIndex >= 1
              /\ GainAtLeast(prices, call.currentIndex, call.thresholdPercent))
    /\ Called("calculateAllDailyChangeTriggers") =>
          /\ Len(ret) = 2 * Len(dailyThresholds)
          /\ \A k \in DOMAIN ret :
                LET t == ret[k].threshold
                    T == {i \in 1..(Len(prices) - 1) :
                             IF ret[k].type = "daily-loss"
                             THEN LossAtLeast(prices, i, t)
                             ELSE GainAtLeast(prices, i, t)}
                IN  /\ ret[k].alarmName =
                          (IF ret[k].type = "daily-loss" THEN "DailyLoss"
                           ELSE "DailyGain") \o ToString(t) \o "Percent"
                    /\ IF T = {} THEN ret[k].previousTriggeredDate = NULL
                       ELSE ret[k].previousTriggeredDate
                                = PriceAt(prices, SetMax(T)).date

\* a loss of exactly 3 percent at index 1 is the latest loss of the series:
\* DailyLoss3Percent carries its date, DailyLoss5Percent has no date, and a
\* later gain gives DailyGain3Percent a date
C14_Witness ==
    /\ Called("calculateAllDailyChangeTriggers")
    /\ Len(prices) >= 3
    /\ PriceAt(prices, 1).close * 100 = 97 * PriceAt(prices, 0).close
    /\ \E k \in DOMAIN ret :
          /\ ret[k].alarmName = "DailyLoss3Percent"
          /\ ret[k].previousTriggeredDate = PriceAt(prices, 1).date
    /\ \E k \in DOMAIN ret :
          /\ ret[k].alarmName = "DailyLoss5Percent"
          /\ ret[k].previousTriggeredDate = NULL
    /\ \E k \in DOMAIN ret :
          /\ ret[k].alarmName = "DailyGain3Percent"
          /\ ret[k].previousTriggeredDate # NULL

\* the sum of the squares of the closes of the period points ending at i
WindowSumSq(prices_, i, period) ==
    LET f[k \in 0..period] ==
            IF k = 0 THEN 0
            ELSE f[k - 1] + PriceAt(prices_, i - k + 1).close
                              * PriceAt(prices_, i - k + 1).close
    IN  f[period]

\* With S the sum and Q the sum of squares of the window's p closes:
\* middle = S/p, sigma^2 = (p*Q - S^2)/p^2, and
\* close <= lower + bandWidth*d/100  iff  S - p*close >= s*(100-2d)/100 * p*sigma
\* close >= upper - bandWidth*d/100  iff  p*close - S >= s*(100-2d)/100 * p*sigma
BandReached(prices_, i, period, stdDev, d, lower) ==
    LET S == WindowSum(prices_, i, period)
        Q == WindowSumSq(prices_, i, period)
        dist == IF lower THEN S - period * PriceAt(prices_, i).close
                ELSE period * PriceAt(prices_, i).close - S
    IN  /\ dist >= 0
        /\ dist * dist * 10000
              >= stdDev * stdDev * (100 - 2 * d) * (100 - 2 * d)
                     * (period * Q - S * S)

\* C15: for i >= period-1, with middle the mean of the last period closes
\* ending at i, sigma their population standard deviation, upper/lower =
\* middle +/- stdDev*sigma and bandWidth = upper - lower, checkBBLowerTrigger
\* is triggered iff close[i] <= lower + bandWidth*distancePercent/100 and
\* checkBBUpperTrigger iff close[i] >= upper - bandWidth*distancePercent/100
\* (the close alone is compared); below period points it is not triggered.
C15_BollingerBandTriggers ==
    (Called("checkBBLowerTrigger") \/ Called("checkBBUpperTrigger")) =>
        LET i == call.currentIndex
            p == call.period
        IN  IF i < p - 1 \/ i >= Len(prices)
            THEN ~ret.isTriggered /\ ret.bb = NULL
            ELSE LET S == WindowSum(prices, i, p)
                     Q == WindowSumSq(prices, i, p)
                 IN  /\ ret.bb.middle.n * p = S * ret.bb.middle.d
                     /\ ret.bb.upper.v.n * p * p
                           = (p * Q - S * S) * ret.bb.upper.v.d
                     /\ ret.bb.upper.q = ret.bb.middle
                     /\ ret.bb.lower.q = ret.bb.middle
                     /\ ret.bb.upper.r = RatInt(call.stdDev)
                     /\ ret.bb.lower.r = RatInt(0 - call.stdDev)
                     /\ ret.isTriggered <=>
                           BandReached(prices, i, p, call.stdDev,
                                       call.distancePercent,
                                       call.op = "checkBBLowerTrigger")

\* a close between the lower band and the threshold of the call: it triggers
\* with the call's distance and does not with distance 0
C15_Witness ==
    /\ Called("checkBBLowerTrigger")
    /\ call.distancePercent > 0
    /\ ret.isTriggered
    /\ call.currentIndex < Len(prices)
    /\ ~checkBBLowerTrigger(prices, call.currentIndex, call.period, call.stdDev,
                            0).isTriggered

\* the last close of the series is the lowest close of the whole series
LastCloseIsSeriesLow(prices_) ==
    \A k \in 1..Len(prices_) : prices_[Len(prices_)].close <= prices_[k].close

\* C16: for every week period w and every series of exactly w weeks of
\* trading days plus one point whose last close is the minimum close of the
\* series, calculateAllNWeekLowTriggers returns a (w, 0) entry whose
\* previousTriggeredDate is the date of the last point.
C16_LowAtLastPointOfMinimalSeries ==
    Called("calculateAllNWeekLowTriggers") =>
        \A w \in Range(weekPeriods) :
            (Len(prices) = w * DaysPerWeek + 1 /\ LastCloseIsSeriesLow(prices)) =>
                LET hits == {k \in 1..Len(ret) :
                                ret[k].weeks = w /\ ret[k].fluctuation = 0}
                IN  /\ Cardinality(hits) = 1
                    /\ \A k \in hits :
                          ret[k].previousTriggeredDate = prices[Len(prices)].date

\* a series of exactly w weeks plus one point that falls to its low on the
\* last point
C16_Witness ==
    /\ Called("calculateAllNWeekLowTriggers")
    /\ \E w \in Range(weekPeriods) : Len(prices) = w * DaysPerWeek + 1
    /\ LastCloseIsSeriesLow(prices)
    /\ prices[Len(prices)].close < prices[1].close

C18_ViewerLowMarkerIsSharedDetector ==
    (Called("checkAlarmCondition") /\ call.type = "nweek-low") =>
        (ret <=> checkNWeekLowTrigger(prices, call.fullDataIndex,
                                      call.alarm.value, 0).isTriggered)

\* C19: for every series and every index i >= period the RSI the viewer
\* computes for the day (StockViewer.calculateRSI of the prefix 0..i) equals
\* the value at index i of the shared calculateRSI over the series.
C19_ViewerRSIIsSharedRSI ==
    (Called("StockViewer.calculateRSI") /\ call.fullIndex >= call.period) =>
        LET shared == RSIAt(calculateRSI(prices, call.period), call.fullIndex)
        IN  /\ ret # NULL
            /\ shared # NULL
            /\ ret.n * shared.d = shared.n * ret.d

\* C20: CheckUserAlerts is read-only: for every request, valid or rejected,
\* the user's alertList and every symbol's stored alarmList are the same
\* before and after the call (no write reaches either store), and the arrays
\* handed to checkIfAllAlarmsTriggeredOnDate are not modified: an alert
\* reported as triggered carries the alertOption array as it is stored.
C20_CheckUserAlertsIsReadOnly ==
    Called("CheckUserAlerts") =>
        /\ userDB = call.userDB
        /\ stockDB = call.stockDB
        /\ \A k \in 1..Len(ret.triggeredAlerts) :
              \E j \in 1..Len(userDB.alertList) :
                  /\ userDB.alertList[j].symbol = ret.triggeredAlerts[k].symbol
                  /\ userDB.alertList[j].alertOption
                        = ret.triggeredAlerts[k].alertOption

\* a request that found a triggered alert, after which both stores hold
\* what they held
C20_Witness ==
    /\ Called("CheckUserAlerts")
    /\ ret.status = 200
    /\ Len(ret.triggeredAlerts) > 0
    /\ Len(ret.triggeredAlerts) < Len(userDB.alertList)

\* the tasks that hold a permit: past WaitAsync and before the end of finally
PermitHolders == {k \in DOMAIN tasks : tasks[k].pc \in {"CallUpdateApiAsync", "Delay", "catch"}}

\* C21: during UpdateStocksAsync, for any number of active stocks, at most 3
\* CallUpdateApiAsync requests are in flight at any point, the permit a task
\* took is released on every path (success, failed result, exception), and
\* the permit count is back to 3 when all tasks have finished.
C21_AtMostThreeInFlightPermitsReturned ==
    /\ Cardinality(InFlight(tasks)) <= SemaphorePermits
    /\ semaphore >= 0
    /\ semaphore + Cardinality(PermitHolders) = SemaphorePermits
    /\ (\A k \in DOMAIN tasks : tasks[k].pc = "finished") =>
          semaphore = SemaphorePermits

\* three requests in flight and a fourth task held at WaitAsync, after a
\* task that threw has finished
C21_Witness ==
    /\ Cardinality(InFlight(tasks)) = SemaphorePermits
    /\ semaphore = 0
    /\ \E k \in DOMAIN tasks : tasks[k].pc = "WaitAsync"
    /\ \E k \in DOMAIN tasks :
          tasks[k].pc = "finished" /\ tasks[k].result.Error # NULL

\* C22: when the series loaded for a symbol has fewer than the required
\* points (260), UpdateSingleStockIndicators answers 400 without computing a
\* catalogue and without reading or writing the symbol's watchlist document:
\* the persisted alarmList is unchanged; and it answers 400 in that case only.
C22_ShortSeriesAnswers400TouchesNothing ==
    Called("UpdateSingleStockIndicators") =>
        /\ (ret.status = 400) <=> (Len(prices) < MinDataPoints)
        /\ Len(prices) < MinDataPoints =>
              /\ ret.alarmCount = 0
              /\ ret.reads = 0
              /\ ret.writes = 0
              /\ stockDB = call.stockDB

\* a short series for a symbol whose document holds a list
C22_Witness ==
    /\ Called("UpdateSingleStockIndicators")
    /\ Len(prices) < MinDataPoints
    /\ ret.status = 400
    /\ HasField(stockDB[call.symbol], "alarmList")
    /\ stockDB[call.symbol].alarmList # <<>>

\* an alert is to be reported for a day: it has a symbol and a non-empty
\* alertOption list, the symbol's document exists with an alarmList, and each
\* option names an entry of the list dated (UTC) on that day
ToBeReported(alert, day) ==
    /\ alert.symbol # ""
    /\ alert.alertOption # <<>>
    /\ alert.symbol \in DOMAIN stockDB
    /\ HasField(stockDB[alert.symbol], "alarmList")
    /\ \A o \in DOMAIN alert.alertOption :
          \E e \in DOMAIN stockDB[alert.symbol].alarmList :
              LET entry == stockDB[alert.symbol].alarmList[e]
              IN  /\ entry.alarmName = alert.alertOption[o]
                  /\ entry.previousTriggeredDate # NULL
                  /\ entry.previousTriggeredDate.iso[1] = day

\* the alerts of a list that are to be reported, in the order of the list
RECURSIVE ReportedOf(_, _)
ReportedOf(alertList, day) ==
    IF alertList = <<>> THEN <<>>
    ELSE (IF ToBeReported(Head(alertList), day)
          THEN <<[symbol |-> Head(alertList).symbol,
                  alertOption |-> Head(alertList).alertOption,
                  triggeredDate |-> [ymd |-> day]]>>
          ELSE <<>>) \o ReportedOf(Tail(alertList), day)

\* C23: in a CheckUserAlerts response an entry of the user's alertList is in
\* triggeredAlerts iff it has a symbol and a non-empty alertOption list, the
\* symbol's document exists with an alarmList, and all its alertOptions match
\* the check date; entries with an empty alertOption list are never
\* reported, reported entries keep alertList order, and triggeredCount is
\* the number of reported entries and never exceeds totalAlerts.
C23_TriggeredAlertsAreTheMatchingAlerts ==
    (Called("CheckUserAlerts") /\ "totalAlerts" \in DOMAIN ret) =>
        LET day == IF call.req.date = NULL THEN call.today ELSE call.req.date.ymd
        IN  /\ ret.triggeredAlerts = ReportedOf(userDB.alertList, day)
            /\ \A k \in DOMAIN ret.triggeredAlerts :
                  ret.triggeredAlerts[k].alertOption # <<>>
            /\ ret.triggeredCount = Len(ret.triggeredAlerts)
            /\ ret.totalAlerts = Len(userDB.alertList)
            /\ ret.triggeredCount <= ret.totalAlerts

\* a list of two alerts on symbols with a list: the first has no options
\* and is not reported, the second is
C23_Witness ==
    /\ Called("CheckUserAlerts")
    /\ "totalAlerts" \in DOMAIN ret
    /\ ret.totalAlerts = 2
    /\ ret.triggeredCount = 1
    /\ userDB.alertList[1].alertOption = <<>>
    /\ HasField(getStockAlarms(stockDB, userDB.alertList[1].symbol), "alarmList")
    /\ Len(ret.triggeredAlerts[1].alertOption) = 2

\* date a is not later than date b, null counted as earlier than any date
DateLE(a, b) == a = NULL \/ (b # NULL /\ a.time <= b.time)

\* every alarm of the earlier catalogue is in the later one, with a date
\* that is not earlier and is non-null when the earlier one was
NotMovedBack(earlier, later) ==
    \A i \in DOMAIN earlier :
        \E j \in DOMAIN later :
            /\ later[j].alarmName = earlier[i].alarmName
            /\ DateLE(earlier[i].previousTriggeredDate,
                      later[j].previousTriggeredDate)

\* C24: appending later-dated points to a series never moves an alarm
\* backwards: for every alarm of the grid the previousTriggeredDate computed
\* on the extended series is greater than or equal to the one computed on
\* the original series, and non-null whenever the original one was.
C24_AppendingNeverMovesAlarmBack ==
    Called("calculateAlarmList") =>
        \A n \in 0..(Len(prices) - 1) :
            NotMovedBack(calculateAlarmList(SubSeq(prices, 1, n), <<>>), ret)

\* a catalogue in which an alarm dated on the original series has moved to
\* the appended point, and another has kept its date
C24_Witness ==
    /\ Called("calculateAlarmList")
    /\ Len(prices) > MinDataPoints
    /\ LET original == calculateAlarmList(SubSeq(prices, 1, Len(prices) - 1), <<>>)
       IN  /\ \E i \in DOMAIN original, j \in DOMAIN ret :
                 /\ ret[j].alarmName = original[i].alarmName
                 /\ original[i].previousTriggeredDate # NULL
                 /\ ret[j].previousTriggeredDate = prices[Len(prices)].date
           /\ \E i \in DOMAIN original, j \in DOMAIN ret :
                 /\ ret[j].alarmName = original[i].alarmName
                 /\ original[i].previousTriggeredDate # NULL
                 /\ ret[j].previousTriggeredDate = original[i].previousTriggeredDate

\* the trigger condition of the alarm of a name at an index of the series:
\* the check function of its family with the parameters its name is made of
MAPositionAt(prices_, i, ma1Period, ma2Period, direction) ==
    /\ i >= ma2Period - 1
    /\ calculateMA(prices_, i, ma1Period) # NULL
    /\ calculateMA(prices_, i, ma2Period) # NULL
    /\ IF direction = "above"
       THEN RatLT(calculateMA(prices_, i, ma2Period), calculateMA(prices_, i, ma1Period))
       ELSE RatLT(calculateMA(prices_, i, ma1Period), calculateMA(prices_, i, ma2Period))

MACrossAt(prices_, i, ma1Period, ma2Period, direction) ==
    /\ checkMACrossMA(prices_, i, ma1Period, ma2Period).crossed
    /\ checkMACrossMA(prices_, i, ma1Period, ma2Period).direction = direction

ConditionHoldsAt(prices_, i, name) ==
    \/ \E w \in Range(weekPeriods), f \in Range(fluctuations) :
         \/ /\ name = lowAlarmName([weeks |-> w, fluctuation |-> f])
            /\ checkNWeekLowTrigger(prices_, i, w, f).isTriggered
         \/ /\ name = highAlarmName([weeks |-> w, fluctuation |-> f])
            /\ checkNWeekHighTrigger(prices_, i, w, f).isTriggered
    \/ \E ij \in {x \in (DOMAIN maPeriods) \X (DOMAIN maPeriods) : x[1] < x[2]} :
         LET p1 == maPeriods[ij[1]]
             p2 == maPeriods[ij[2]]
             nameOf(d) == maAlarmName([ma1Period |-> p1, ma2Period |-> p2,
                                       direction |-> d])
         IN  \/ name = nameOf("above") /\ MAPositionAt(prices_, i, p1, p2, "above")
             \/ name = nameOf("below") /\ MAPositionAt(prices_, i, p1, p2, "below")
             \/ name = nameOf("cross-up") /\ MACrossAt(prices_, i, p1, p2, "golden")
             \/ name = nameOf("cross-down") /\ MACrossAt(prices_, i, p1, p2, "death")
    \/ \E t \in Range(dailyThresholds) :
         \/ /\ name = "DailyLoss" \o ToString(t) \o "Percent"
            /\ checkDailyLossTrigger(prices_, i, t).isTriggered
         \/ /\ name = "DailyGain" \o ToString(t) \o "Percent"
            /\ checkDailyGainTrigger(prices_, i, t).isTriggered
    \/ \E t \in Range(oversoldThresholds) :
         /\ name = "RSIOversold" \o ToString(t)
         /\ checkRSIOversoldTrigger(prices_, i, t, RSIPeriod).isTriggered
    \/ \E t \in Range(overboughtThresholds) :
         /\ name = "RSIOverbought" \o ToString(t)
         /\ checkRSIOverboughtTrigger(prices_, i, t, RSIPeriod).isTriggered
    \/ \E d \in Range(distancePercents) :
         \/ /\ name = "BBLower" \o ToString(BBPeriod) \o "Period" \o ToString(BBStdDev)
                          \o "StdDev" \o ToString(d) \o "Pct"
            /\ checkBBLowerTrigger(prices_, i, BBPeriod, BBStdDev, d).isTriggered
         \/ /\ name = "BBUpper" \o ToString(BBPeriod) \o "Period" \o ToString(BBStdDev)
                          \o "StdDev" \o ToString(d) \o "Pct"
            /\ checkBBUpperTrigger(prices_, i, BBPeriod, BBStdDev, d).isTriggered

C26_EveryFetchedDateExactlyOnce ==
    (\A i \in DOMAIN tasks : tasks[i].pc = "done") =>
        /\ \A j, k \in DOMAIN blob : blob[j] = blob[k] => j = k
        /\ \A i \in DOMAIN tasks :
             Range(tasks[i].stockData) \subseteq Range(blob)

\* the previousTriggeredDate a catalogue has for a name, null when it has no
\* entry of that name
TriggerDateOf(alarmList_, name) ==
    IF find(alarmList_, name) = NULL THEN NULL
    ELSE find(alarmList_, name).previousTriggeredDate

DateLT(a, b) == DateLE(a, b) /\ a # b

\* C27: in every catalogue, for each weeks value the N-week dates are
\* ordered by tolerance: the date of a fluctuation is not later than the date
\* of the next larger fluctuation, for the N-week low and for the N-week
\* high, null counted as earlier than any date.
C27_NWeekDatesOrderedByTolerance ==
    Called("calculateAlarmList") =>
        \A w \in Range(weekPeriods), k \in 1..(Len(fluctuations) - 1) :
            /\ DateLE(TriggerDateOf(ret, lowAlarmName(
                          [weeks |-> w, fluctuation |-> fluctuations[k]])),
                      TriggerDateOf(ret, lowAlarmName(
                          [weeks |-> w, fluctuation |-> fluctuations[k + 1]])))
            /\ DateLE(TriggerDateOf(ret, highAlarmName(
                          [weeks |-> w, fluctuation |-> fluctuations[k]])),
                      TriggerDateOf(ret, highAlarmName(
                          [weeks |-> w, fluctuation |-> fluctuations[k + 1]])))

\* a catalogue in which, for one weeks value, the low of the largest
\* fluctuation is dated after the low of the smallest, and for one weeks
\* value the high of the smallest fluctuation has a date and the high of the
\* largest a later one
C27_Witness ==
    /\ Called("calculateAlarmList")
    /\ \E w \in Range(weekPeriods) :
         /\ DateLT(TriggerDateOf(ret, lowAlarmName(
                       [weeks |-> w, fluctuation |-> fluctuations[1]])),
                   TriggerDateOf(ret, lowAlarmName(
                       [weeks |-> w, fluctuation |-> fluctuations[Len(fluctuations)]])))
    /\ \E w \in Range(weekPeriods) :
         /\ TriggerDateOf(ret, highAlarmName(
                [weeks |-> w, fluctuation |-> fluctuations[1]])) # NULL
         /\ DateLT(TriggerDateOf(ret, highAlarmName(
                       [weeks |-> w, fluctuation |-> fluctuations[1]])),
                   TriggerDateOf(ret, highAlarmName(
                       [weeks |-> w, fluctuation |-> fluctuations[Len(fluctuations)]])))

\* the pairs of periods the builder makes MA alarms for
MAPairs ==
    {<<maPeriods[x[1]], maPeriods[x[2]]>> :
        x \in {y \in (DOMAIN maPeriods) \X (DOMAIN maPeriods) : y[1] < y[2]}}

\* the date the catalogue has for the MA alarm of a pair and a direction
MADateOf(alarmList_, pair, direction) ==
    TriggerDateOf(alarmList_, maAlarmName([ma1Period |-> pair[1],
                                           ma2Period |-> pair[2],
                                           direction |-> direction]))

\* C28: in every catalogue and for every pair p1 < p2, a dated
\* MA{p1}CrossUpMA{p2} comes with an MA{p1}AboveMA{p2} dated the same day or
\* later, a dated MA{p1}CrossDownMA{p2} with an MA{p1}BelowMA{p2} dated the
\* same day or later, and no index of the series is both a cross-up and a
\* cross-down.
C28_CrossImpliesPositionNoDoubleCross ==
    Called("calculateAlarmList") =>
        \A pair \in MAPairs :
            /\ MADateOf(ret, pair, "cross-up") # NULL =>
                   /\ MADateOf(ret, pair, "above") # NULL
                   /\ MADateOf(ret, pair, "cross-up").time
                          <= MADateOf(ret, pair, "above").time
            /\ MADateOf(ret, pair, "cross-down") # NULL =>
                   /\ MADateOf(ret, pair, "below") # NULL
                   /\ MADateOf(ret, pair, "cross-down").time
                          <= MADateOf(ret, pair, "below").time
            /\ \A i \in 0..(Len(prices) - 1) :
                   /\ ~(/\ scanMACrossMA(prices, i, pair[1], pair[2], "golden")
                               = PriceAt(prices, i).date
                        /\ scanMACrossMA(prices, i, pair[1], pair[2], "death")
                               = PriceAt(prices, i).date)
                   /\ ~(GoldenAt(prices, i, pair[1], pair[2])
                           /\ DeathAt(prices, i, pair[1], pair[2]))

\* a catalogue with, for one pair, a cross-up followed by later days above
\* and a cross-down that is the latest day below
C28_Witness ==
    /\ Called("calculateAlarmList")
    /\ \E pair \in MAPairs :
         /\ MADateOf(ret, pair, "cross-up") # NULL
         /\ MADateOf(ret, pair, "above") # NULL
         /\ MADateOf(ret, pair, "cross-up").time < MADateOf(ret, pair, "above").time
         /\ MADateOf(ret, pair, "cross-down") # NULL
         /\ MADateOf(ret, pair, "below") = MADateOf(ret, pair, "cross-down")

\* C29: date round trip: for every CSV row dated DD-MM-YYYY and every
\* time-zone offset of the host that builds the catalogue, a trigger recorded
\* on that row (a Date built as local midnight, stored as an ISO string) is
\* formatted by formatDateUTC as the calendar day of the row, never the day
\* before or after.
C29_RoundTripKeepsCalendarDay ==
    Called("recordTriggerOnRow") => ret = [ymd |-> call.date.day]

====
